---------------------------- MODULE Spec2Model ----------------------------
(***************************************************************************)
(* Model of coc.nvim's completion utilities (completion/util.ts):          *)
(*   - MruLoader: the recency model behind completion ranking,             *)
(*   - shouldStop / getResumeInput: the input/resume policy,               *)
(*   - getWord / getReplaceRange / Converter: the item conversion,         *)
(*   - checkIgnoreRegexps, toCompleteDoneItem, getKindText,                *)
(*     getKindHighlight, shouldIndent: stateless helpers,                  *)
(* of the Links handler (handler/links.ts) and of attach (attach.ts).      *)
(*                                                                         *)
(* A JavaScript string is a sequence of UTF-16 code units; a code unit is  *)
(* written as a one-character TLA+ string.  "E" stands for a two-byte      *)
(* character (U+00E9), "R" for U+FFFD, the replacement character.          *)
(***************************************************************************)
EXTENDS Integers, Sequences, FiniteSets, TLC

VARIABLES
    max,            \* MruLoader.max
    items,          \* MruLoader.items
    itemsNoPrefex,  \* MruLoader.itemsNoPrefex
    last,           \* the latest MruLoader call: name, arguments, result, state before it
    ghost,          \* history of the MruLoader: touch order, lost keys, numbers written
    ops,            \* number of MruLoader calls made

    stopCall,       \* shouldStop: arguments, result
    resumeCall,     \* getResumeInput: arguments, result

    conv,           \* a Converter: its batch context, slice caches and minCharacter
    convCall,       \* the latest call on the Converter: arguments, result, state before it
    convHist,       \* history of the Converter: what its conversions produced

    utilCall,       \* the latest call of a stateless helper: arguments, result
    attachState,    \* attach: plugin readiness, pending notifications, requests
    linksState,     \* Links: a run of openCurrentLink or openLink, or getLinks calls
    formatState     \* FormatHandler: the documents being saved

mruVars == <<max, items, itemsNoPrefex, last, ghost, ops>>
convVars == <<conv, convCall, convHist>>
restVars == <<utilCall, attachState, linksState, formatState>>
vars == <<max, items, itemsNoPrefex, last, ghost, ops, stopCall, resumeCall,
          conv, convCall, convHist, utilCall, attachState, linksState,
          formatState>>

\* no helper is called, nothing is attached, no link is opened
RestIdle ==
    /\ utilCall = "idle"
    /\ attachState = "idle"
    /\ linksState = "idle"
    /\ formatState = "idle"

\* no Converter is built
ConvIdle ==
    /\ conv = "idle"
    /\ convCall = "idle"
    /\ convHist = "idle"

----------------------------------------------------------------------------
(* Bounds *)

\* entries recorded before the model starts watching (the pre-filled start)
Prefill == 100
\* MruLoader calls explored after the start
MaxOps == 3
\* longest line / pre-cursor text drawn as an input
MaxLen == 2
\* conversions made by one Converter
MaxConv == 2
\* longest word handed to fixFollow
MaxWord == 3
\* longest list of ignore patterns
MaxPatterns == 2
\* longest pre-cursor text handed to shouldIndent
MaxPretext == 3

\* notifications one attach receives, and requests it is sent
MaxNotif == 3
MaxReq == 2

\* getLinks calls that may overlap
MaxCalls == 2

\* documents whose saves may overlap
MaxSaves == 2

----------------------------------------------------------------------------
(* Strings *)

StartsWith(s, p) ==
    /\ Len(p) <= Len(s)
    /\ SubSeq(s, 1, Len(p)) = p

\* the code units the inputs are written in: "E" takes two bytes in UTF-8
Chars == {"a", " ", "E"}

\* all strings of at most n code units
Strs(n) == UNION {[1..k -> Chars] : k \in 0..n}

\* charCodeAt(i): NaN past the end
CharCodeAt(s, i) == IF i < Len(s) THEN s[i + 1] ELSE "NaN"

Min(a, b) == IF a < b THEN a ELSE b

RECURSIVE Utf8(_)
\* Buffer.from(s, 'utf8'): "E" becomes a lead byte and a continuation byte
Utf8(s) ==
    IF s = <<>> THEN <<>>
    ELSE (IF Head(s) = "E" THEN <<"E1", "E2">> ELSE <<Head(s)>>) \o Utf8(Tail(s))

RECURSIVE Utf8Decode(_)
\* toString('utf8'): a byte that is no part of a whole character reads as U+FFFD
Utf8Decode(b) ==
    IF b = <<>> THEN <<>>
    ELSE IF Head(b) = "E1" /\ Len(b) > 1 /\ b[2] = "E2"
         THEN <<"E">> \o Utf8Decode(SubSeq(b, 3, Len(b)))
    ELSE IF Head(b) \in {"E1", "E2"} THEN <<"R">> \o Utf8Decode(Tail(b))
    ELSE <<Head(b)>> \o Utf8Decode(Tail(b))

\* byteSlice(content, start, end) (util/string), for 0 <= start and 0 <= end
byteSlice(content, start, end) ==
    LET b == Utf8(content)
    IN  Utf8Decode(SubSeq(b, start + 1, Min(end, Len(b))))

\* byteSlice(content, start): to the end
byteSliceFrom(content, start) == byteSlice(content, start, Len(Utf8(content)))

Digit == <<"0", "1", "2", "3", "4", "5", "6", "7", "8", "9">>

RECURSIVE DecStr(_)
\* `${n}` of a non-negative integer
DecStr(n) ==
    IF n < 10 THEN <<Digit[n + 1]>>
    ELSE DecStr(n \div 10) \o <<Digit[(n % 10) + 1]>>

\* CompletionItemKind | string | undefined
NumKind(n) == [t |-> "number", n |-> n, s |-> <<>>]
StrKind(s) == [t |-> "string", n |-> 0, s |-> s]
UndefKind == [t |-> "undefined", n |-> 0, s |-> <<>>]

IsNumber(kind) == kind.t = "number"

\* `${kind}` after `kind ?? ''`
KindText(kind) ==
    CASE kind.t = "number" -> DecStr(kind.n)
      [] kind.t = "string" -> kind.s
      [] OTHER -> <<>>

----------------------------------------------------------------------------
(* LRUCache (util/map): a map in least-recently-used-first order *)

Absent == [has |-> FALSE, v |-> 0]
Present(v) == [has |-> TRUE, v |-> v]

LRUCache(limit) == [limit |-> limit, entries |-> <<>>]

IndexOf(entries, key) ==
    IF \E i \in 1..Len(entries) : entries[i].k = key
    THEN CHOOSE i \in 1..Len(entries) : entries[i].k = key
    ELSE 0

Remove(entries, i) ==
    SubSeq(entries, 1, i - 1) \o SubSeq(entries, i + 1, Len(entries))

Keys(cache) == {cache.entries[i].k : i \in 1..Len(cache.entries)}
Values(cache) == {cache.entries[i].v : i \in 1..Len(cache.entries)}
Size(cache) == Len(cache.entries)

\* the stored value, without touching
Peek(cache, key) ==
    LET i == IndexOf(cache.entries, key)
    IN  IF i = 0 THEN Absent ELSE Present(cache.entries[i].v)

\* get(key): the value; a hit makes the entry the most recently used
LRUGet(cache, key) ==
    LET i == IndexOf(cache.entries, key)
    IN  IF i = 0 THEN [ret |-> Absent, cache |-> cache]
        ELSE [ret |-> Present(cache.entries[i].v),
              cache |-> [cache EXCEPT !.entries =
                             Append(Remove(cache.entries, i), cache.entries[i])]]

\* set(key, value): the entry becomes the most recently used; over the limit,
\* the least recently used entries go
LRUSet(cache, key, value) ==
    LET i == IndexOf(cache.entries, key)
        kept == IF i = 0 THEN cache.entries ELSE Remove(cache.entries, i)
        all == Append(kept, [k |-> key, v |-> value])
        over == Len(all) - cache.limit
    IN  [cache EXCEPT !.entries =
            IF over > 0 THEN SubSeq(all, over + 1, Len(all)) ELSE all]

LRUClear(cache) == [cache EXCEPT !.entries = <<>>]

----------------------------------------------------------------------------
(* MruLoader *)

\* mutant: the limit one too high
MAX_MRU_ITEMS_OffByOne == 100 + 1

MAX_MRU_ITEMS == 100

Selections == {"first", "recentlyUsed", "recentlyUsedByPrefix", "other"}

Nullish(x, d) == IF x.has THEN x.v ELSE d

toItemKey(item) ==
    item.filterText \o <<"|">> \o item.source \o <<"|">> \o KindText(item.kind)

\* the loader's fields as one value
Loader(m, it, np) == [max |-> m, items |-> it, itemsNoPrefex |-> np]

NewLoader == Loader(0, LRUCache(MAX_MRU_ITEMS), LRUCache(MAX_MRU_ITEMS))

\* mutant: reads without refreshing the entry read
getScoreNoTouch(l, input, item, selection) ==
    LET key == toItemKey(item)
        key2 == IF Len(input) # 0 /\ selection = "recentlyUsedByPrefix"
                THEN input \o <<"|">> \o key ELSE key
        map == IF Len(input) = 0 \/ selection = "recentlyUsed"
               THEN l.itemsNoPrefex ELSE l.items
    IN  [ret |-> Nullish(Peek(map, key2), -1), loader |-> l]

\* mutant: recentlyUsed reads the prefix-aware cache
getScoreWrongMap(l, input, item, selection) ==
    LET key == toItemKey(item)
    IN  IF Len(input) = 0
        THEN LET g == LRUGet(l.itemsNoPrefex, key)
             IN  [ret |-> Nullish(g.ret, -1),
                  loader |-> [l EXCEPT !.itemsNoPrefex = g.cache]]
        ELSE LET key2 == IF selection = "recentlyUsedByPrefix"
                         THEN input \o <<"|">> \o key ELSE key
                 g == LRUGet(l.items, key2)
             IN  [ret |-> Nullish(g.ret, -1),
                  loader |-> [l EXCEPT !.items = g.cache]]

\* mutant: only recentlyUsedByPrefix reads the prefix-aware cache
getScoreFirstNoPrefex(l, input, item, selection) ==
    LET key == toItemKey(item)
    IN  IF Len(input) # 0 /\ selection = "recentlyUsedByPrefix"
        THEN LET g == LRUGet(l.items, input \o <<"|">> \o key)
             IN  [ret |-> Nullish(g.ret, -1),
                  loader |-> [l EXCEPT !.items = g.cache]]
        ELSE LET g == LRUGet(l.itemsNoPrefex, key)
             IN  [ret |-> Nullish(g.ret, -1),
                  loader |-> [l EXCEPT !.itemsNoPrefex = g.cache]]

\* mutant: recentlyUsedByPrefix looks the plain key up
getScorePlainKey(l, input, item, selection) ==
    LET key == toItemKey(item)
    IN  IF Len(input) = 0 \/ selection = "recentlyUsed"
        THEN LET g == LRUGet(l.itemsNoPrefex, key)
             IN  [ret |-> Nullish(g.ret, -1),
                  loader |-> [l EXCEPT !.itemsNoPrefex = g.cache]]
        ELSE LET g == LRUGet(l.items, key)
             IN  [ret |-> Nullish(g.ret, -1),
                  loader |-> [l EXCEPT !.items = g.cache]]

\* getScore: [ret, loader]; a hit reorders the cache read
getScore(l, input, item, selection) ==
    LET key == toItemKey(item)
    IN  IF Len(input) = 0
        THEN LET g == LRUGet(l.itemsNoPrefex, key)
             IN  [ret |-> Nullish(g.ret, -1),
                  loader |-> [l EXCEPT !.itemsNoPrefex = g.cache]]
        ELSE LET key2 == IF selection = "recentlyUsedByPrefix"
                         THEN input \o <<"|">> \o key ELSE key
             IN  IF selection = "recentlyUsed"
                 THEN LET g == LRUGet(l.itemsNoPrefex, key2)
                      IN  [ret |-> Nullish(g.ret, -1),
                           loader |-> [l EXCEPT !.itemsNoPrefex = g.cache]]
                 ELSE LET g == LRUGet(l.items, key2)
                      IN  [ret |-> Nullish(g.ret, -1),
                           loader |-> [l EXCEPT !.items = g.cache]]

\* mutant: the kind is not tested
addUnguarded(l, prefix, item) ==
    LET key == toItemKey(item)
        prefix2 == IF ~StartsWith(item.filterText, prefix) THEN <<>> ELSE prefix
        line == prefix2 \o <<"|">> \o key
    IN  Loader(l.max + 1,
               LRUSet(l.items, line, l.max),
               LRUSet(l.itemsNoPrefex, key, l.max))

\* mutant: a prefix the filter text does not start with is kept
addKeepPrefix(l, prefix, item) ==
    IF ~IsNumber(item.kind) THEN l
    ELSE LET key == toItemKey(item)
             line == prefix \o <<"|">> \o key
         IN  Loader(l.max + 1,
                    LRUSet(l.items, line, l.max),
                    LRUSet(l.itemsNoPrefex, key, l.max))

\* mutant: the counter is not incremented
addNoIncrement(l, prefix, item) ==
    IF ~IsNumber(item.kind) THEN l
    ELSE LET key == toItemKey(item)
             prefix2 == IF ~StartsWith(item.filterText, prefix) THEN <<>> ELSE prefix
             line == prefix2 \o <<"|">> \o key
         IN  Loader(l.max,
                    LRUSet(l.items, line, l.max),
                    LRUSet(l.itemsNoPrefex, key, l.max))

\* add: the loader after the call
add(l, prefix, item) ==
    IF ~IsNumber(item.kind) THEN l
    ELSE LET key == toItemKey(item)
             prefix2 == IF ~StartsWith(item.filterText, prefix) THEN <<>> ELSE prefix
             line == prefix2 \o <<"|">> \o key
         IN  Loader(l.max + 1,
                    LRUSet(l.items, line, l.max),
                    LRUSet(l.itemsNoPrefex, key, l.max))

\* mutant: the no-prefix cache is not emptied
clearPrefixOnly(l) == Loader(0, LRUClear(l.items), l.itemsNoPrefex)

\* mutant: the caches are not emptied
clearCounterOnly(l) == Loader(0, l.items, l.itemsNoPrefex)

clear(l) == Loader(0, LRUClear(l.items), LRUClear(l.itemsNoPrefex))

----------------------------------------------------------------------------
(* History of the MruLoader, kept beside it and never read by it.          *)
(* It is written from what a call is documented to look up or record, and  *)
(* from which keys the caches are seen to hold before and after the call.  *)

CacheNames == {"items", "itemsNoPrefex"}

CacheOf(l, c) == IF c = "items" THEN l.items ELSE l.itemsNoPrefex

\* the entry a getScore call reads
Lookup(input, item, selection) ==
    LET key == item.filterText \o <<"|">> \o item.source \o <<"|">> \o KindText(item.kind)
    IN  CASE Len(input) = 0 -> [c |-> "itemsNoPrefex", k |-> key]
          [] selection = "recentlyUsedByPrefix" -> [c |-> "items", k |-> input \o <<"|">> \o key]
          [] selection = "recentlyUsed" -> [c |-> "itemsNoPrefex", k |-> key]
          [] OTHER -> [c |-> "items", k |-> key]

\* the entry an add call of a numeric-kind item records in cache c
Recorded(prefix, item, c) ==
    LET key == item.filterText \o <<"|">> \o item.source \o <<"|">> \o KindText(item.kind)
        pre == IF StartsWith(item.filterText, prefix) THEN prefix ELSE <<>>
    IN  IF c = "items" THEN pre \o <<"|">> \o key ELSE key

\* key becomes the most recently touched of the order
Touch(order, key) ==
    LET Other(k) == k # key
    IN  Append(SelectSeq(order, Other), key)

Pairs(c, keys) == {<<c, k>> : k \in keys}

Range(seq) == {seq[i] : i \in 1..Len(seq)}

\* what a cache answers for key: its number, or -1
Score(cache, key) ==
    IF \E i \in 1..Len(cache.entries) : cache.entries[i].k = key
    THEN (CHOOSE e \in Range(cache.entries) : e.k = key).v
    ELSE -1

\* the keys cache c held before the call and no longer holds
Gone(before, after, c) == Keys(CacheOf(before, c)) \ Keys(CacheOf(after, c))

NewGhost ==
    [touched |-> [c \in CacheNames |-> <<>>],  \* keys by latest touch since the latest clear
     cleared |-> {},   \* <<cache, key>> recorded before the latest clear and not since
     evicted |-> {},   \* <<cache, key>> evicted and not recorded since
     written |-> -1,   \* number written by the latest recording add since the latest clear
     clears |-> FALSE] \* whether clear was ever called

GhostGetScore(g, before, input, item, selection) ==
    LET e == Lookup(input, item, selection)
    IN  IF e.k \in Keys(CacheOf(before, e.c))
        THEN [g EXCEPT !.touched[e.c] = Touch(@, e.k)]
        ELSE g

GhostAdd(g, before, after, prefix, item) ==
    IF ~IsNumber(item.kind) THEN g
    ELSE LET rec == {<<c, Recorded(prefix, item, c)>> : c \in CacheNames}
             gone == UNION {Pairs(c, Gone(before, after, c)) : c \in CacheNames}
         IN  [g EXCEPT !.touched = [c \in CacheNames |-> Touch(@[c], Recorded(prefix, item, c))],
                       !.cleared = @ \ rec,
                       !.evicted = (@ \cup gone) \ rec,
                       !.written = Score(after.itemsNoPrefex, Recorded(prefix, item, "itemsNoPrefex"))]

GhostClear(g) ==
    [g EXCEPT !.touched = [c \in CacheNames |-> <<>>],
              !.cleared = @ \cup UNION {Pairs(c, Range(g.touched[c])) : c \in CacheNames},
              !.evicted = {},
              !.written = -1,
              !.clears = TRUE]

----------------------------------------------------------------------------
(* Inputs *)

FillerText(i) == <<"f">> \o DecStr(i)
Filler(i) == [filterText |-> FillerText(i), source |-> <<"s">>, kind |-> NumKind(1)]

FilterTexts == {<<"a", "b">>, FillerText(0)}
Kinds == {NumKind(1), StrKind(<<"1">>), UndefKind}
Items == [filterText : FilterTexts, source : {<<"s">>}, kind : Kinds]
Inputs == {<<>>, <<"a">>}

NoItem == [filterText |-> <<>>, source |-> <<>>, kind |-> UndefKind]

\* a call's record; afterAdd: the call before it was add with the same input and item
Call(op, input, item, selection, ret, before, g) ==
    [op |-> op, input |-> input, item |-> item, selection |-> selection,
     ret |-> ret, pre |-> before, preGhost |-> g,
     afterAdd |-> op # "none" /\ last.op = "add" /\ last.input = input /\ last.item = item]

\* the newest MAX_MRU_ITEMS of a sequence: what a cache retains of it
Retained(seq) ==
    IF Len(seq) > MAX_MRU_ITEMS
    THEN SubSeq(seq, Len(seq) - MAX_MRU_ITEMS + 1, Len(seq))
    ELSE seq

\* the loader after add('', Filler(0)), ..., add('', Filler(n - 1)) on a new one
FilledLoader(n) ==
    Loader(n,
           [limit |-> MAX_MRU_ITEMS,
            entries |-> Retained([i \in 1..n |->
                [k |-> <<"|">> \o toItemKey(Filler(i - 1)), v |-> i - 1]])],
           [limit |-> MAX_MRU_ITEMS,
            entries |-> Retained([i \in 1..n |->
                [k |-> toItemKey(Filler(i - 1)), v |-> i - 1]])])

\* the history of those calls
FilledGhost(n) ==
    [touched |-> [c \in CacheNames |-> [i \in 1..n |-> Recorded(<<>>, Filler(i - 1), c)]],
     cleared |-> {},
     evicted |-> {<<c, Recorded(<<>>, Filler(i - 1), c)>> :
                      c \in CacheNames, i \in 1..(n - MAX_MRU_ITEMS)},
     written |-> n - 1,
     clears |-> FALSE]

Filled(n) == [loader |-> FilledLoader(n), ghost |-> FilledGhost(n)]

\* the loader starts new, or as Prefill calls of add have left it
Starts == {Filled(0), Filled(Prefill)}

Current == Loader(max, items, itemsNoPrefex)

----------------------------------------------------------------------------
(* The MruLoader's operations *)

\* the policy functions are not called
IdleOthers ==
    /\ stopCall = "idle"
    /\ resumeCall = "idle"
    /\ ConvIdle
    /\ RestIdle

MruInit ==
    /\ \E st \in Starts :
        /\ max = st.loader.max
        /\ items = st.loader.items
        /\ itemsNoPrefex = st.loader.itemsNoPrefex
        /\ ghost = st.ghost
        /\ last = Call("none", <<>>, NoItem, "first", 0, st.loader, st.ghost)
    /\ ops = 0
    /\ IdleOthers

GetScore(input, item, selection) ==
    /\ ops < MaxOps
    /\ LET r == getScore(Current, input, item, selection)
       IN  /\ max' = r.loader.max
           /\ items' = r.loader.items
           /\ itemsNoPrefex' = r.loader.itemsNoPrefex
           /\ last' = Call("getScore", input, item, selection, r.ret, Current, ghost)
           /\ ghost' = GhostGetScore(ghost, Current, input, item, selection)
    /\ ops' = ops + 1
    /\ UNCHANGED <<stopCall, resumeCall, convVars, restVars>>

Add(prefix, item) ==
    /\ ops < MaxOps
    /\ LET after == add(Current, prefix, item)
       IN  /\ max' = after.max
           /\ items' = after.items
           /\ itemsNoPrefex' = after.itemsNoPrefex
           /\ last' = Call("add", prefix, item, "first", 0, Current, ghost)
           /\ ghost' = GhostAdd(ghost, Current, after, prefix, item)
    /\ ops' = ops + 1
    /\ UNCHANGED <<stopCall, resumeCall, convVars, restVars>>

Clear ==
    /\ ops < MaxOps
    /\ LET after == clear(Current)
       IN  /\ max' = after.max
           /\ items' = after.items
           /\ itemsNoPrefex' = after.itemsNoPrefex
           /\ last' = Call("clear", <<>>, NoItem, "first", 0, Current, ghost)
           /\ ghost' = GhostClear(ghost)
    /\ ops' = ops + 1
    /\ UNCHANGED <<stopCall, resumeCall, convVars, restVars>>

MruNext ==
    \/ \E input \in Inputs, item \in Items, selection \in Selections :
           GetScore(input, item, selection)
    \/ \E prefix \in Inputs, item \in Items : Add(prefix, item)
    \/ Clear

SpecMru == MruInit /\ [][MruNext]_vars

----------------------------------------------------------------------------
(* Claims about the MruLoader, checked under SpecMru *)

\* the entry the latest getScore call is documented to read
Read == Lookup(last.input, last.item, last.selection)

\* the key the latest add call is documented to record in cache c
Rec(c) == Recorded(last.input, last.item, c)

RecordingAdd == last.op = "add" /\ IsNumber(last.item.kind)

\* every number either cache held before the latest call
HeldBefore == Values(last.pre.items) \cup Values(last.pre.itemsNoPrefex)

\* the held key touched longest ago, by the history
LeastRecentlyTouched(order, held) ==
    order[CHOOSE i \in 1..Len(order) :
              /\ order[i] \in held
              /\ \A j \in 1..(i - 1) : order[j] \notin held]

\* cache c was full before the latest add, which recorded a key new to it
Overflows(c) ==
    /\ RecordingAdd
    /\ Size(CacheOf(last.pre, c)) = 100
    /\ Rec(c) \notin Keys(CacheOf(last.pre, c))

\* getScore(prefix, item, RecentlyUsedByPrefix) right after add(prefix, item)
ScoreRightAfterAdd ==
    /\ last.op = "add"
    /\ last'.op = "getScore"
    /\ last'.input = last.input
    /\ last'.item = last.item
    /\ last'.selection = "recentlyUsedByPrefix"

ScoreIsNewest ==
    /\ last'.ret >= 0
    /\ \A v \in HeldBefore : last'.ret > v

\* C1 as stated: for every prefix and item, getScore(prefix, item,
\* RecentlyUsedByPrefix) right after add(prefix, item) is non-negative and
\* greater than every score either cache held before that add.
C1_AnyItem == [][ScoreRightAfterAdd => ScoreIsNewest]_vars

\* C1, amended: for every item of a numeric kind and every prefix its filter
\* text starts with, getScore(prefix, item, RecentlyUsedByPrefix) right after
\* add(prefix, item) is non-negative and greater than every score either
\* cache held before that add.
C1_AddThenScore ==
    [][(/\ ScoreRightAfterAdd
        /\ IsNumber(last.item.kind)
        /\ StartsWith(last.item.filterText, last.input)) => ScoreIsNewest]_vars

C1_Witness ==
    /\ last.op = "getScore"
    /\ last.afterAdd
    /\ last.selection = "recentlyUsedByPrefix"
    /\ IsNumber(last.item.kind)
    /\ Len(last.input) > 0
    /\ StartsWith(last.item.filterText, last.input)
    /\ last.ret > 0

\* C2: clear() leaves the counter at 0 and both caches empty, and from then on
\* getScore answers -1 for every entry recorded before the clear, until an add
\* records it again.
C2_Clear ==
    /\ last.op = "clear" =>
           max = 0 /\ Size(items) = 0 /\ Size(itemsNoPrefex) = 0
    /\ (last.op = "getScore" /\ <<Read.c, Read.k>> \in last.preGhost.cleared) =>
           last.ret = -1

C2_Witness ==
    /\ last.op = "getScore"
    /\ <<Read.c, Read.k>> \in last.preGhost.cleared
    /\ last.ret = -1
    /\ max > 0

\* C3: an add that records a new key in a cache holding 100 entries removes
\* exactly one entry from it, the one touched longest ago (by an add that
\* wrote it or a getScore that found it); getScore answers -1 for an evicted
\* entry until an add records it again.
C3_Eviction ==
    /\ \A c \in CacheNames :
           Overflows(c) =>
               /\ Gone(last.pre, Current, c) =
                      {LeastRecentlyTouched(last.preGhost.touched[c],
                                            Keys(CacheOf(last.pre, c)))}
               /\ Size(CacheOf(Current, c)) = 100
    /\ (last.op = "getScore" /\ <<Read.c, Read.k>> \in last.preGhost.evicted) =>
           last.ret = -1

\* an eviction whose victim is not the entry written first: a read refreshed that one
C3_Witness ==
    \E c \in CacheNames :
        /\ Overflows(c)
        /\ \E k \in Gone(last.pre, Current, c) :
               \E v \in Values(CacheOf(last.pre, c)) :
                   v < Score(CacheOf(last.pre, c), k)

\* C4: each cache holds at most 100 entries, and a cache loses an entry only
\* when it is itself full and is given a new key: never because of the other.
C4_Capacity ==
    /\ Size(items) <= 100
    /\ Size(itemsNoPrefex) <= 100
    /\ \A c \in CacheNames :
           (last.op \in {"add", "getScore"} /\ Gone(last.pre, Current, c) # {}) =>
               Overflows(c)

C4_Witness ==
    /\ Overflows("items")
    /\ Gone(last.pre, Current, "items") # {}
    /\ ~Overflows("itemsNoPrefex")
    /\ Size(itemsNoPrefex) = 100
    /\ Keys(last.pre.itemsNoPrefex) = Keys(itemsNoPrefex)

\* C5: a recording add writes one number to both caches; it is greater than
\* the number written by the recording add before it, and it is 0 when no add
\* has recorded since construction or since the latest clear.
C5_Sequence ==
    RecordingAdd =>
        LET n == Score(items, Rec("items"))
        IN  /\ n = Score(itemsNoPrefex, Rec("itemsNoPrefex"))
            /\ n > last.preGhost.written
            /\ last.preGhost.written = -1 => n = 0

C5_Witness ==
    /\ RecordingAdd
    /\ ghost.clears
    /\ last.preGhost.written >= 0
    /\ Score(items, Rec("items")) > last.preGhost.written

\* C6: getScore answers what the cache named by the lookup rule held for the
\* key named by the rule, and -1 when it held nothing.
C6_Lookup ==
    last.op = "getScore" => last.ret = Score(CacheOf(last.pre, Read.c), Read.k)

C6_Witness ==
    /\ last.op = "getScore"
    /\ Len(last.input) > 0
    /\ last.selection = "recentlyUsed"
    /\ last.ret >= 0
    /\ Score(last.pre.items, Read.k) = -1

\* C7: add of an item whose kind is not a number changes neither cache, nor
\* their order, nor the counter.
C7_NonNumericKind ==
    (last.op = "add" /\ ~IsNumber(last.item.kind)) => Current = last.pre

C7_Witness ==
    /\ last.op = "add"
    /\ last.item.kind.t = "string"
    /\ Size(items) > 0
    /\ Current = last.pre

\* C8: add of a numeric-kind item with the counter at n leaves n under
\* prefix|filterText|source|kind in the prefix-aware cache (the prefix empty
\* when the filter text does not start with it) and under
\* filterText|source|kind in the no-prefix cache, writes no other entry, and
\* leaves the counter at n + 1.
C8_Add ==
    RecordingAdd =>
        /\ max = last.pre.max + 1
        /\ \A c \in CacheNames :
               /\ Score(CacheOf(Current, c), Rec(c)) = last.pre.max
               /\ \A k \in Keys(CacheOf(Current, c)) \ {Rec(c)} :
                      /\ k \in Keys(CacheOf(last.pre, c))
                      /\ Score(CacheOf(Current, c), k) = Score(CacheOf(last.pre, c), k)

C8_Witness ==
    /\ RecordingAdd
    /\ Len(last.input) > 0
    /\ ~StartsWith(last.item.filterText, last.input)
    /\ Score(items, <<"|">> \o toItemKey(last.item)) = last.pre.max
    /\ max = last.pre.max + 1

\* the sequence numbers a cache holds
Numbers(cache) == {cache.entries[i].v : i \in 1..Len(cache.entries)}

\* C34: in every reachable state every value stored in either cache is an
\* integer in [0, counter-1], and within one cache no two distinct keys hold
\* the same sequence number; so getScore always returns a value in
\* [-1, counter-1].
C34_StoredValues ==
    /\ \A c \in CacheNames :
          /\ Numbers(CacheOf(Current, c)) \subseteq 0..(max - 1)
          /\ Cardinality(Numbers(CacheOf(Current, c))) = Size(CacheOf(Current, c))
    /\ last.op = "getScore" => last.ret \in -1..(max - 1)

\* a full cache whose newest entry, written after the pre-filled ones, was
\* read by getScore
C34_Witness ==
    /\ last.op = "getScore"
    /\ last.ret = max - 1
    /\ max > Prefill
    /\ Size(items) = MAX_MRU_ITEMS

----------------------------------------------------------------------------
(* Input/resume policy: shouldStop and getResumeInput *)

Null == [null |-> TRUE, text |-> <<>>]
Text(t) == [null |-> FALSE, text |-> t]

\* mutant: the line number is not compared
shouldStopAnyLine(bufnr, pretext, info, option) ==
    LET pre == info.pre
    IN  IF Len(pre) = 0 \/ pre[Len(pre)] = " " \/ Len(pre) < Len(pretext) THEN TRUE
        ELSE IF option.bufnr # bufnr THEN TRUE
        ELSE LET text == byteSlice(option.line, 0, option.colnr - 1)
             IN  IF ~StartsWith(pre, text) THEN TRUE
                 ELSE FALSE

shouldStop(bufnr, pretext, info, option) ==
    LET pre == info.pre
    IN  IF Len(pre) = 0 \/ pre[Len(pre)] = " " \/ Len(pre) < Len(pretext) THEN TRUE
        ELSE IF option.bufnr # bufnr THEN TRUE
        ELSE LET text == byteSlice(option.line, 0, option.colnr - 1)
             IN  IF option.linenr # info.lnum \/ ~StartsWith(pre, text) THEN TRUE
                 ELSE FALSE

\* mutant: a space typed after the cursor is accepted
getResumeInputAnySpace(option, pretext) ==
    LET line == option.line
        cursor == option.position.character
        pl == Len(pretext)
    IN  IF pl < cursor THEN Null
        ELSE IF \E i \in 0..(pl - 1) :
                    i < cursor /\ CharCodeAt(pretext, i) # CharCodeAt(line, i)
             THEN Null
        ELSE Text(byteSliceFrom(pretext, option.col))

getResumeInput(option, pretext) ==
    LET line == option.line
        cursor == option.position.character
        pl == Len(pretext)
    IN  IF pl < cursor THEN Null
        ELSE IF \E i \in 0..(pl - 1) :
                    \/ i < cursor /\ CharCodeAt(pretext, i) # CharCodeAt(line, i)
                    \/ i >= cursor /\ CharCodeAt(pretext, i) = " "
             THEN Null
        ELSE Text(byteSliceFrom(pretext, option.col))

\* the MruLoader, new and not called
MruIdle ==
    /\ max = NewLoader.max
    /\ items = NewLoader.items
    /\ itemsNoPrefex = NewLoader.itemsNoPrefex
    /\ ghost = NewGhost
    /\ last = Call("none", <<>>, NoItem, "first", 0, NewLoader, NewGhost)
    /\ ops = 0

\* the text a session began with
Pretexts == {[i \in 1..k |-> "a"] : k \in 0..MaxLen}

StopInit ==
    /\ \E pretext \in Pretexts, pre \in Strs(MaxLen), line \in Strs(MaxLen),
          obuf \in 1..2, linenr \in 1..2, colnr \in 1..(2 * MaxLen + 1) :
           stopCall = [bufnr |-> 1, pretext |-> pretext,
                       info |-> [pre |-> pre, lnum |-> 1],
                       option |-> [bufnr |-> obuf, linenr |-> linenr,
                                   line |-> line, colnr |-> colnr],
                       done |-> FALSE, ret |-> FALSE]
    /\ resumeCall = "idle"
    /\ ConvIdle
    /\ RestIdle
    /\ MruIdle

ShouldStop ==
    /\ ~stopCall.done
    /\ stopCall' = [stopCall EXCEPT
           !.done = TRUE,
           !.ret = shouldStop(stopCall.bufnr, stopCall.pretext, stopCall.info,
                              stopCall.option)]
    /\ UNCHANGED <<mruVars, resumeCall, convVars, restVars>>

SpecStop == StopInit /\ [][ShouldStop]_vars

ResumeInit ==
    /\ \E pretext \in Strs(MaxLen), line \in Strs(MaxLen),
          character \in 0..(MaxLen + 1), col \in 0..(2 * MaxLen) :
           resumeCall = [option |-> [col |-> col, line |-> line,
                                     position |-> [character |-> character]],
                         pretext |-> pretext,
                         done |-> FALSE, ret |-> Null]
    /\ stopCall = "idle"
    /\ ConvIdle
    /\ RestIdle
    /\ MruIdle

GetResumeInput ==
    /\ ~resumeCall.done
    /\ resumeCall' = [resumeCall EXCEPT
           !.done = TRUE,
           !.ret = getResumeInput(resumeCall.option, resumeCall.pretext)]
    /\ UNCHANGED <<mruVars, stopCall, convVars, restVars>>

SpecResume == ResumeInit /\ [][GetResumeInput]_vars

----------------------------------------------------------------------------
(* Claims about the input/resume policy *)

\* bytes from + 1 .. to of b, as far as b has them
BytesOf(b, from, to) ==
    [i \in 1..((IF to < Len(b) THEN to ELSE Len(b)) - from) |-> b[from + i]]

\* the part of option.line before byte column option.colnr
LineBeforeColnr ==
    Utf8Decode(BytesOf(Utf8(stopCall.option.line), 0, stopCall.option.colnr - 1))

\* C9 (under SpecStop): shouldStop is true when info.pre is empty, ends in a
\* space or is shorter than pretext, when option.bufnr is not bufnr, when
\* option.linenr is not info.lnum, or when info.pre does not start with the
\* part of option.line before option.colnr; it is false for every other input.
C9_ShouldStop ==
    stopCall.done =>
        LET pre == stopCall.info.pre
        IN  stopCall.ret <=>
                \/ pre = <<>>
                \/ (pre # <<>> /\ pre[Len(pre)] = " ")
                \/ Len(pre) < Len(stopCall.pretext)
                \/ stopCall.option.bufnr # stopCall.bufnr
                \/ stopCall.option.linenr # stopCall.info.lnum
                \/ ~StartsWith(pre, LineBeforeColnr)

\* a continued session: text typed after a line part that holds a two-byte character
C9_Witness ==
    /\ stopCall.done
    /\ ~stopCall.ret
    /\ Len(stopCall.info.pre) > Len(stopCall.pretext)
    /\ Len(stopCall.pretext) > 0
    /\ "E" \in Range(LineBeforeColnr)
    /\ Len(stopCall.info.pre) > Len(LineBeforeColnr)

\* the bytes of pretext from byte column option.col on, read as text
PretextFromCol ==
    LET b == Utf8(resumeCall.pretext)
    IN  Utf8Decode(BytesOf(b, resumeCall.option.col, Len(b)))

\* C10 (under SpecResume): getResumeInput is null when pretext is shorter than
\* option.position.character, when a character of pretext before that index
\* differs from option.line at the same index, or when a character of pretext
\* at or after that index is a space; otherwise it is pretext from byte column
\* option.col on.
C10_GetResumeInput ==
    resumeCall.done =>
        LET pretext == resumeCall.pretext
            line == resumeCall.option.line
            cursor == resumeCall.option.position.character
            abort ==
                \/ Len(pretext) < cursor
                \/ \E i \in 1..Len(pretext) :
                       i <= cursor /\ (i > Len(line) \/ pretext[i] # line[i])
                \/ \E i \in 1..Len(pretext) : i > cursor /\ pretext[i] = " "
        IN  IF abort THEN resumeCall.ret.null
            ELSE resumeCall.ret = Text(PretextFromCol)

\* a resumed session: text typed after the cursor, the input starting after a
\* two-byte character
C10_Witness ==
    /\ resumeCall.done
    /\ ~resumeCall.ret.null
    /\ resumeCall.option.position.character > 0
    /\ Len(resumeCall.pretext) > resumeCall.option.position.character
    /\ resumeCall.option.col = 2
    /\ resumeCall.pretext[1] = "E"
    /\ Len(resumeCall.ret.text) = Len(resumeCall.pretext) - 1

(***************************************************************************)
(* Item conversion: values of the raw items.                               *)
(*                                                                         *)
(* A JavaScript value is a record [t, n, s] as for an item's kind; on top  *)
(* of the code units above, "LF" and "CR" are the two line breaks and "e"  *)
(* is the ASCII letter that "E" transliterates to.  A sortText is written  *)
(* in numeric code units, so that two of them can be ordered.              *)
(***************************************************************************)
Undefined == UndefKind
Str(s) == StrKind(s)
Num(n) == NumKind(n)
True == [t |-> "boolean", n |-> 1, s |-> <<>>]
False == [t |-> "boolean", n |-> 0, s |-> <<>>]
Bool(b) == IF b THEN True ELSE False

\* Is.string, Is.number
IsString(v) == v.t = "string"

\* a value in a condition: undefined, '', 0 and false are falsy
Truthy(v) ==
    CASE v.t = "undefined" -> FALSE
      [] v.t = "string" -> v.s # <<>>
      [] OTHER -> v.n # 0

\* a ?? b
Coalesce(a, b) == IF a.t = "undefined" THEN b ELSE a

Max(a, b) == IF a > b THEN a ELSE b

\* String.prototype.slice(start, end): a negative index counts from the end
Slice(s, start, end) ==
    LET len == Len(s)
        from == IF start < 0 THEN Max(len + start, 0) ELSE Min(start, len)
        to == IF end < 0 THEN Max(len + end, 0) ELSE Min(end, len)
    IN  IF from < to THEN [i \in 1..(to - from) |-> s[from + i]] ELSE <<>>

EndsWith(s, t) ==
    /\ Len(t) <= Len(s)
    /\ Slice(s, Len(s) - Len(t), Len(s)) = t

Includes(s, c) == \E i \in 1..Len(s) : s[i] = c

\* String.prototype.trim
Whitespace == {" ", "TAB", "LF", "CR"}
Trim(s) ==
    LET solid == {i \in 1..Len(s) : s[i] \notin Whitespace}
    IN  IF solid = {} THEN <<>>
        ELSE LET first == CHOOSE i \in solid : \A j \in solid : i <= j
                 final == CHOOSE i \in solid : \A j \in solid : j <= i
             IN  Slice(s, first - 1, final)

Position(c) == [character |-> c]
RangeOf(s, e) == [start |-> Position(s), end |-> Position(e)]

\* item.textEdit: absent, a TextEdit or an InsertReplaceEdit
NoEdit == [t |-> "none", newText |-> <<>>, range |-> RangeOf(0, 0),
           insert |-> RangeOf(0, 0), replace |-> RangeOf(0, 0)]
TextEdit(range, newText) ==
    [NoEdit EXCEPT !.t = "TextEdit", !.newText = newText, !.range = range]
InsertReplaceEdit(newText, insert, replace) ==
    [NoEdit EXCEPT !.t = "InsertReplaceEdit", !.newText = newText,
                   !.insert = insert, !.replace = replace]

\* itemDefaults.editRange: absent, a Range or an insert/replace pair
NoEditRange == [t |-> "none", range |-> RangeOf(0, 0),
                insert |-> RangeOf(0, 0), replace |-> RangeOf(0, 0)]
EditRange(range) == [NoEditRange EXCEPT !.t = "Range", !.range = range]
EditRangePair(insert, replace) ==
    [NoEditRange EXCEPT !.t = "InsertReplace", !.insert = insert, !.replace = replace]

CompletionItemKind ==
    [Text |-> 1, Method |-> 2, Function |-> 3, Constructor |-> 4, Field |-> 5,
     Variable |-> 6, Class |-> 7, Interface |-> 8, Module |-> 9, Property |-> 10,
     Unit |-> 11, Value |-> 12, Enum |-> 13, Keyword |-> 14, Snippet |-> 15,
     Color |-> 16, File |-> 17, Reference |-> 18, Folder |-> 19, EnumMember |-> 20,
     Constant |-> 21, Struct |-> 22, Event |-> 23, Operator |-> 24,
     TypeParameter |-> 25]
InsertTextFormat == [PlainText |-> 1, Snippet |-> 2]
CompletionItemTag == [Deprecated |-> 1]

\* toObject(item.data): an absent data reads as an object without fields
NoData == [has |-> FALSE, word |-> Undefined, dup |-> Undefined, optional |-> FALSE]
Data(word, dup, optional) == [has |-> TRUE, word |-> word, dup |-> dup, optional |-> optional]

NoLabelDetails == [has |-> FALSE, detail |-> <<>>, description |-> <<>>]
LabelDetails(detail, description) ==
    [has |-> TRUE, detail |-> detail, description |-> description]

\* item.tags: absent or a list, here the set of its members
NoTags == [has |-> FALSE, list |-> {}]
Tags(list) == [has |-> TRUE, list |-> list]

\* a protocol-native item (CompletionItem) with only a label
LspItem(label) ==
    [label |-> Str(label), kind |-> Undefined, data |-> NoData, textEdit |-> NoEdit,
     insertText |-> Undefined, insertTextFormat |-> Undefined,
     additionalTextEdits |-> 0, filterText |-> Undefined, sortText |-> Undefined,
     score |-> Undefined, detail |-> Undefined, preselect |-> Undefined,
     deprecated |-> Undefined, tags |-> NoTags, labelDetails |-> NoLabelDetails]

\* a legacy item (ExtendedCompleteItem) with only a word
VimItem(word) ==
    [word |-> Str(word), abbr |-> Undefined, filterText |-> Undefined,
     isSnippet |-> Undefined, dup |-> Undefined, menu |-> Undefined,
     kind |-> Undefined, info |-> Undefined, insertText |-> Undefined,
     preselect |-> Undefined, sortText |-> Undefined, documentation |-> Undefined,
     deprecated |-> Undefined, detail |-> Undefined,
     labelDetails |-> NoLabelDetails, user_data |-> Undefined]

\* Is.isCompletionItem: the item has a string label
isCompletionItem(item) == "label" \in DOMAIN item /\ IsString(item.label)

\* toText(item.word)
toText(v) == IF IsString(v) THEN v.s ELSE <<>>

\* unidecode: the closest ASCII text
unidecode(s) == [i \in 1..Len(s) |-> IF s[i] = "E" THEN "e" ELSE s[i]]

(***************************************************************************)
(* Item conversion: the word and the range of a protocol-native item.      *)
(***************************************************************************)
INVALID_WORD_CHARS == {"LF", "CR"}
DollarSign == "$"
QuestionMark == "?"
MAX_CODE_POINT == 1114111

emptLabelDetails(labelDetails) ==
    IF ~labelDetails.has THEN TRUE
    ELSE labelDetails.detail = <<>> /\ labelDetails.description = <<>>

isSnippetItem(item, itemDefaults) ==
    LET insertTextFormat == Coalesce(item.insertTextFormat, itemDefaults.insertTextFormat)
    IN  insertTextFormat = Num(InsertTextFormat.Snippet)

hasAction(item, itemDefaults) ==
    isSnippetItem(item, itemDefaults) \/ item.additionalTextEdits # 0

\* the index (from 0) of the first code unit that is in excludes, -1 if none
FirstOf(s, excludes) ==
    LET bad == {i \in 1..Len(s) : s[i] \in excludes}
    IN  IF bad = {} THEN -1 ELSE (CHOOSE i \in bad : \A j \in bad : i <= j) - 1

toValidWord(snippet, excludes) ==
    LET i == FirstOf(snippet, excludes)
    IN  IF i >= 0 THEN Slice(snippet, 0, i) ELSE snippet

\* text.replace(/\(.+/, ''): the first "(" that is followed by a code unit
\* other than a line break is removed with the rest of its line
StripParens(text) ==
    LET opens == {i \in 1..Len(text) - 1 :
                    text[i] = "(" /\ text[i + 1] \notin INVALID_WORD_CHARS}
    IN  IF opens = {} THEN text
        ELSE LET open == CHOOSE i \in opens : \A j \in opens : i <= j
                 rest == Slice(text, open, Len(text))
                 brk == FirstOf(rest, INVALID_WORD_CHARS)
                 stop == IF brk >= 0 THEN open + brk ELSE Len(text)
             IN  Slice(text, 0, open - 1) \o Slice(text, stop, Len(text))

RECURSIVE SnippetText(_)
\* (new SnippetParser()).text(text): the text of the snippet, a tab stop
\* "$1" standing for no text
SnippetText(text) ==
    IF text = <<>> THEN <<>>
    ELSE IF Len(text) >= 2 /\ text[1] = DollarSign /\ text[2] = "1"
         THEN SnippetText(Slice(text, 2, Len(text)))
         ELSE <<text[1]>> \o SnippetText(Tail(text))

snippetToWord(text, kind) ==
    LET stripped == IF kind = Num(CompletionItemKind.Function)
                       \/ kind = Num(CompletionItemKind.Method)
                    THEN StripParens(text) ELSE text
    IN  IF ~Includes(stripped, DollarSign) THEN stripped
        ELSE toValidWord(SnippetText(stripped), INVALID_WORD_CHARS)

getWord(item, itemDefaults) ==
    IF item.data.has /\ IsString(item.data.word) THEN item.data.word.s
    ELSE LET textToInsert == IF item.textEdit.t # "none" THEN Str(item.textEdit.newText)
                             ELSE item.insertText
         IN  IF ~IsString(textToInsert) THEN item.label.s
             ELSE IF isSnippetItem(item, itemDefaults)
                  THEN snippetToWord(textToInsert.s, item.kind)
                  ELSE toValidWord(textToInsert.s, INVALID_WORD_CHARS)

\* an optional Range
NoRange == [has |-> FALSE, v |-> RangeOf(0, 0)]
SomeRange(r) == [has |-> TRUE, v |-> r]

\* mutant: the defaults are looked at before the item's own edit
RangeSourceDefaultsFirst(item, itemDefaults) ==
    CASE itemDefaults.editRange.t = "Range" -> "editRange"
      [] itemDefaults.editRange.t = "InsertReplace" -> "editRange.replace"
      [] item.textEdit.t = "InsertReplaceEdit" -> "textEdit.replace"
      [] item.textEdit.t = "TextEdit" -> "textEdit.range"
      [] OTHER -> "undefined"

\* Which Range object getReplaceRange picks.
RangeSource(item, itemDefaults) ==
    CASE item.textEdit.t = "InsertReplaceEdit" -> "textEdit.replace"
      [] item.textEdit.t = "TextEdit" -> "textEdit.range"
      [] itemDefaults.editRange.t = "Range" -> "editRange"
      [] itemDefaults.editRange.t = "InsertReplace" -> "editRange.replace"
      [] OTHER -> "undefined"

\* The Range object at a source.
RangeAt(source, item, itemDefaults) ==
    CASE source = "textEdit.replace" -> item.textEdit.replace
      [] source = "textEdit.range" -> item.textEdit.range
      [] source = "editRange" -> itemDefaults.editRange.range
      [] source = "editRange.replace" -> itemDefaults.editRange.replace
      [] OTHER -> NoRange.v

\* getReplaceRange returns the Range object it picked, not a copy: the
\* assignment to range.start.character writes into the item's textEdit or into
\* itemDefaults.editRange.  The result holds the returned range together with
\* the item and the itemDefaults as the call leaves them.
getReplaceRange(item, itemDefaults, character) ==
    LET source == RangeSource(item, itemDefaults)
        picked == RangeAt(source, item, itemDefaults)
        range == IF source # "undefined" /\ IsNumber(character)
                    /\ picked.start.character > character.n
                 THEN [picked EXCEPT !.start.character = character.n]
                 ELSE picked
    IN  [range |-> IF source = "undefined" THEN NoRange ELSE SomeRange(range),
         item |->
            CASE source = "textEdit.replace" -> [item EXCEPT !.textEdit.replace = range]
              [] source = "textEdit.range" -> [item EXCEPT !.textEdit.range = range]
              [] OTHER -> item,
         itemDefaults |->
            CASE source = "editRange" -> [itemDefaults EXCEPT !.editRange.range = range]
              [] source = "editRange.replace" ->
                    [itemDefaults EXCEPT !.editRange.replace = range]
              [] OTHER -> itemDefaults]

(***************************************************************************)
(* Item conversion: the Converter.                                         *)
(*                                                                         *)
(* A method is an operator on the Converter `self` that gives the value    *)
(* returned (ret) and the Converter after the call (self).                 *)
(***************************************************************************)
\* Number.MAX_SAFE_INTEGER is 2^53 - 1, above every character of the model:
\* minCharacter is either that number (max) or the number n
MAX_SAFE_INTEGER == [max |-> TRUE, n |-> 0]
Number(n) == [max |-> FALSE, n |-> n]

\* mutant: the latest character is kept instead of the least
MathMinLatest(a, n) == Number(n)

\* Math.min(a, n)
MathMin(a, n) == Number(IF a.max THEN n ELSE Min(a.n, n))

\* a Map<number, string>
NewMap == <<>>
MapHas(map, key) == key \in DOMAIN map
MapSet(map, key, value) == [k \in DOMAIN map \cup {key} |-> IF k = key THEN value ELSE map[k]]

\* option.itemDefaults: absent (toObject gives an object without fields) or present
ItemDefaults(insertTextFormat, editRange) ==
    [insertTextFormat |-> insertTextFormat, editRange |-> editRange]
NoItemDefaults == ItemDefaults(Undefined, NoEditRange)

ConvertOption(range, itemDefaults, asciiMatch) ==
    [source |-> "source", priority |-> 1, range |-> range,
     itemDefaults |-> itemDefaults, asciiMatch |-> asciiMatch]

OptionForWord(line, character) == [line |-> line, position |-> Position(character)]

Converter(inputStart, option, opt) ==
    [inputStart |-> inputStart, option |-> option, opt |-> opt,
     previousCache |-> NewMap, postCache |-> NewMap,
     character |-> opt.position.character,
     minCharacter |-> MAX_SAFE_INTEGER,
     inputLen |-> opt.position.character - inputStart]

\* mutant: the cache is read without regard to the key
getPreviousAnyKey(self, character) ==
    IF DOMAIN self.previousCache # {}
    THEN [ret |-> self.previousCache[CHOOSE k \in DOMAIN self.previousCache : TRUE],
          self |-> self]
    ELSE LET prev == Slice(self.opt.line, character, self.inputStart)
         IN  [ret |-> prev,
              self |-> [self EXCEPT !.previousCache = MapSet(@, character, prev)]]

getPrevious(self, character) ==
    IF MapHas(self.previousCache, character)
    THEN [ret |-> self.previousCache[character], self |-> self]
    ELSE LET prev == Slice(self.opt.line, character, self.inputStart)
         IN  [ret |-> prev,
              self |-> [self EXCEPT !.previousCache = MapSet(@, character, prev)]]

getAfter(self, character) ==
    IF MapHas(self.postCache, character)
    THEN [ret |-> self.postCache[character], self |-> self]
    ELSE LET text == Slice(self.opt.line, self.character, character)
         IN  [ret |-> text,
              self |-> [self EXCEPT !.postCache = MapSet(@, character, text)]]

\* word.slice(0, - toReplace.length): for an empty toReplace the end is -0,
\* which is 0, and the slice is empty
fixFollow(self, word, isSnippet, endCharacter) ==
    IF isSnippet \/ endCharacter <= self.character THEN [ret |-> word, self |-> self]
    ELSE LET after == getAfter(self, endCharacter)
             toReplace == after.ret
         IN  IF Len(word) - self.inputLen > Len(toReplace) /\ EndsWith(word, toReplace)
             THEN [ret |-> Slice(word, 0, 0 - Len(toReplace)), self |-> after.self]
             ELSE [ret |-> word, self |-> after.self]

\* mutant: the filter text is not compared with the text before the input
getDeltaAnyText(self, filterText, character) ==
    IF character < self.inputStart
    THEN LET previous == getPrevious(self, character)
         IN  [ret |-> Len(previous.ret), self |-> previous.self]
    ELSE [ret |-> 0, self |-> self]

getDelta(self, filterText, character) ==
    IF character < self.inputStart
    THEN LET previous == getPrevious(self, character)
         IN  IF StartsWith(filterText, previous.ret)
             THEN [ret |-> Len(previous.ret), self |-> previous.self]
             ELSE [ret |-> 0, self |-> previous.self]
    ELSE [ret |-> 0, self |-> self]

\* Math.round of a number written in tenths: halves go up
MathRound(tenths) == (tenths + 5) \div 10

\* String.fromCodePoint(codePoint), in UTF-16 code units: a code point above
\* U+FFFF is a surrogate pair, one outside 0..0x10FFFF is a RangeError
fromCodePoint(codePoint) ==
    IF codePoint < 0 \/ codePoint > 1114111 THEN [threw |-> TRUE, s |-> <<>>]
    ELSE IF codePoint <= 65535 THEN [threw |-> FALSE, s |-> <<codePoint>>]
    ELSE [threw |-> FALSE,
          s |-> <<55296 + ((codePoint - 65536) \div 1024),
                  56320 + ((codePoint - 65536) % 1024)>>]

\* A conversion gives the item produced (ret), or threw, and leaves the
\* Converter (self) and the raw item (item) as the call left them.
\* A score is a number written in tenths.
convertLspCompleteItem(self, item, index) ==
    LET option == self.option
        inputStart == self.inputStart
        label == Trim(item.label.s)
        itemDefaults == option.itemDefaults
        word == getWord(item, itemDefaults)
        replace == getReplaceRange(item, itemDefaults, Num(inputStart))
        item1 == replace.item
        itemDefaults1 == replace.itemDefaults
        self1 == [self EXCEPT !.option.itemDefaults = itemDefaults1]
        range == IF replace.range.has THEN replace.range.v ELSE option.range
        character == range.start.character
        data == item1.data
        filterText == Coalesce(item1.filterText, item1.label).s
        delta == getDelta(self1, filterText, character)
        follow == fixFollow(delta.self, word, isSnippetItem(item1, itemDefaults1),
                            range.end.character)
        self2 == [follow.self EXCEPT !.minCharacter = MathMin(@, character)]
        abbr == IF data.optional /\ ~EndsWith(label, <<QuestionMark>>)
                THEN label \o <<QuestionMark>> ELSE label
        synthesize == IsNumber(item1.score) /\ ~Truthy(item1.sortText)
        key == fromCodePoint(MAX_CODE_POINT - MathRound(item1.score.n))
    IN  [threw |-> synthesize /\ key.threw,
         ret |-> IF synthesize /\ key.threw THEN "RangeError"
                 ELSE [word |-> follow.ret,
                       abbr |-> Str(abbr),
                       character |-> character,
                       delta |-> delta.ret,
                       kind |-> item1.kind,
                       detail |-> item1.detail,
                       sortText |-> IF synthesize THEN Str(key.s) ELSE item1.sortText,
                       filterText |-> filterText,
                       preselect |-> item1.preselect = True,
                       deprecated |->
                          IF item1.deprecated = True THEN True
                          ELSE IF item1.tags.has
                               THEN Bool(CompletionItemTag.Deprecated \in item1.tags.list)
                               ELSE Undefined,
                       isSnippet |-> hasAction(item1, itemDefaults1),
                       index |-> index,
                       source |-> option.source,
                       priority |-> option.priority,
                       dup |-> data.dup # Num(0),
                       labelDetails |->
                          IF ~emptLabelDetails(item1.labelDetails) THEN item1.labelDetails
                          ELSE NoLabelDetails],
         self |-> self2,
         item |-> item1]

\* mutant: a legacy item is converted as a protocol-native item labelled with
\* its word
convertVimAsLsp(self, item, index) ==
    convertLspCompleteItem(self,
        [LspItem(toText(item.word)) EXCEPT !.data = Data(Undefined, item.dup, FALSE)],
        index)

convertVimCompleteItem(self, item, index) ==
    LET option == self.option
        range == option.range
        word == toText(item.word)
        character == range.start.character
        self1 == [self EXCEPT !.minCharacter = MathMin(@, character)]
        filterText0 == Coalesce(item.filterText, Str(word)).s
        filterText == IF option.asciiMatch THEN unidecode(filterText0) ELSE filterText0
        delta == getDelta(self1, filterText, character)
        follow == fixFollow(delta.self, word, Truthy(item.isSnippet), range.end.character)
    IN  [threw |-> FALSE,
         ret |-> [word |-> follow.ret,
                  abbr |-> Coalesce(item.abbr, Str(word)),
                  filterText |-> filterText,
                  delta |-> delta.ret,
                  character |-> character,
                  source |-> option.source,
                  priority |-> option.priority,
                  index |-> index,
                  dup |-> item.dup = Num(1),
                  menu |-> item.menu,
                  kind |-> item.kind,
                  info |-> item.info,
                  isSnippet |-> Truthy(item.isSnippet),
                  insertText |-> item.insertText,
                  preselect |-> item.preselect,
                  sortText |-> item.sortText,
                  documentation |-> item.documentation,
                  deprecated |-> item.deprecated,
                  detail |-> item.detail,
                  labelDetails |-> item.labelDetails,
                  user_data |-> item.user_data],
         self |-> follow.self,
         item |-> item]

convertToDurationItem(self, item, index) ==
    IF isCompletionItem(item) THEN convertLspCompleteItem(self, item, index)
    ELSE convertVimCompleteItem(self, item, index)

(***************************************************************************)
(* Item conversion: the calls on a Converter.                              *)
(***************************************************************************)
\* fresh is the Converter as it was constructed
NewConvHist == [count |-> 0, characters |-> {}, threw |-> FALSE, keys |-> {}, fresh |-> <<>>]

\* The history after a conversion: the characters of the items produced, and
\* for each sort key made from a score the rounded score with the key.
ConvHistAfter(h, item, r) ==
    [count |-> h.count + 1,
     characters |-> IF r.threw THEN h.characters
                    ELSE h.characters \cup {r.ret.character},
     threw |-> h.threw \/ r.threw,
     keys |-> IF ~r.threw /\ isCompletionItem(item) /\ IsNumber(item.score)
                 /\ ~Truthy(item.sortText)
              THEN h.keys \cup {[score |-> MathRound(item.score.n),
                                 sortText |-> r.ret.sortText.s]}
              ELSE h.keys,
     fresh |-> h.fresh]

ConvStart(converters) ==
    /\ conv \in converters
    /\ convCall = [op |-> "new"]
    /\ convHist = [NewConvHist EXCEPT !.fresh = conv]
    /\ stopCall = "idle"
    /\ resumeCall = "idle"
    /\ RestIdle
    /\ MruIdle

ConvertToDurationItem(item) ==
    /\ convHist.count < MaxConv
    /\ LET r == convertToDurationItem(conv, item, convHist.count)
       IN  /\ conv' = r.self
           /\ convCall' = [op |-> "convertToDurationItem", item |-> item,
                           index |-> convHist.count, threw |-> r.threw, ret |-> r.ret,
                           itemAfter |-> r.item, before |-> conv]
           /\ convHist' = ConvHistAfter(convHist, item, r)
    /\ UNCHANGED <<mruVars, stopCall, resumeCall, restVars>>

FixFollow(word, isSnippet, endCharacter) ==
    /\ LET r == fixFollow(conv, word, isSnippet, endCharacter)
       IN  /\ conv' = r.self
           /\ convCall' = [op |-> "fixFollow", word |-> word, isSnippet |-> isSnippet,
                           endCharacter |-> endCharacter, ret |-> r.ret, before |-> conv]
    /\ UNCHANGED <<convHist, mruVars, stopCall, resumeCall, restVars>>

(***************************************************************************)
(* fixFollow on its own: a Converter over a line, asked about words.       *)
(***************************************************************************)
FollowLines == {<<"a", "b", "c">>, <<"a", "b">>}

\* every cursor of the line after its first character; the input starts at the
\* start of the line or is empty
FollowConverters ==
    {Converter(inputStart, ConvertOption(RangeOf(inputStart, character), NoItemDefaults, FALSE),
               OptionForWord(line, character)) :
        <<line, character, inputStart>> \in
            {<<l, c, i>> \in FollowLines \X (1..3) \X (0..3) :
                c <= Len(l) /\ i \in {0, c}}}

FollowWords == UNION {[1..k -> {"b", "c"}] : k \in 0..MaxWord}

\* a range may end after the last character of the line
FollowEnds == 1..4

FollowInit == ConvStart(FollowConverters)

FollowNext ==
    \E word \in FollowWords, isSnippet \in BOOLEAN, endCharacter \in FollowEnds :
        FixFollow(word, isSnippet, endCharacter)

SpecFollow == FollowInit /\ [][FollowNext]_vars

\* The line text between the cursor and endCharacter.
TextAfterCursor(c) ==
    LET line == c.before.opt.line
        from == c.before.opt.position.character
        to == Min(c.endCharacter, Len(line))
    IN  IF from < to THEN [i \in 1..(to - from) |-> line[from + i]] ELSE <<>>

\* C16: fixFollow(word, isSnippet, endCharacter) gives the word unchanged when
\* the item is a snippet or endCharacter is not past the cursor; otherwise, with
\* T the line text between the cursor and endCharacter, it gives the word with
\* exactly T removed from its end when word.length minus the typed input length
\* exceeds T's length and the word ends with T, and the word unchanged in every
\* other case; a word is never reduced by more than the length of T.
C16_FixFollow ==
    convCall.op = "fixFollow" =>
        LET c == convCall
            T == TextAfterCursor(c)
            cursor == c.before.opt.position.character
            typed == cursor - c.before.inputStart
        IN  /\ (c.isSnippet \/ c.endCharacter <= cursor) => c.ret = c.word
            /\ (~c.isSnippet /\ c.endCharacter > cursor) =>
                  IF Len(c.word) - typed > Len(T) /\ EndsWith(c.word, T)
                  THEN c.ret \o T = c.word
                  ELSE c.ret = c.word
            /\ Len(c.word) - Len(c.ret) <= Len(T)

(***************************************************************************)
(* Conversion of a batch: ranges, delta and minCharacter.                  *)
(***************************************************************************)
ConvLine == <<"e", "a", "b">>

\* <<inputStart, cursor>>: one or no character typed, the cursor inside the
\* line or at its end
ConvInputs == {<<1, 2>>, <<2, 2>>, <<2, 3>>}

\* option.range: a source may start its items before or after the input
ConvRanges == {RangeOf(0, 2), RangeOf(1, 3), RangeOf(2, 3), RangeOf(3, 4)}

ConvDefaults ==
    {NoItemDefaults,
     ItemDefaults(Undefined, EditRange(RangeOf(0, 3))),
     ItemDefaults(Undefined, EditRange(RangeOf(3, 3))),
     ItemDefaults(Num(InsertTextFormat.Snippet), EditRangePair(RangeOf(2, 2), RangeOf(3, 4)))}

ConvConverters ==
    {Converter(in[1], ConvertOption(range, itemDefaults, asciiMatch),
               OptionForWord(ConvLine, in[2])) :
        <<in, range, itemDefaults, asciiMatch>> \in
            ConvInputs \X ConvRanges \X ConvDefaults \X BOOLEAN}

ConvEdits ==
    {NoEdit,
     TextEdit(RangeOf(0, 2), <<"a", "b">>),
     TextEdit(RangeOf(3, 3), <<"a", "b">>),
     InsertReplaceEdit(<<"a", "b">>, RangeOf(1, 2), RangeOf(2, 4)),
     InsertReplaceEdit(<<"a", "b">>, RangeOf(3, 3), RangeOf(0, 3))}

\* protocol-native items: every edit, with and without a filterText; one item
\* carries a score that String.fromCodePoint rejects
ConvLspItems ==
    {[LspItem(<<"a", "b">>) EXCEPT !.textEdit = edit, !.filterText = filterText] :
        <<edit, filterText>> \in ConvEdits \X {Undefined, Str(<<"e", "a">>)}}
    \cup {[LspItem(<<"a", "b">>) EXCEPT !.score = Num(-10)]}

\* legacy items
ConvVimItems ==
    {[VimItem(word) EXCEPT !.dup = dup] :
        <<word, dup>> \in {<<"E", "a">>, <<"a", "b">>} \X {Undefined, Num(0), Num(1)}}
    \cup {[VimItem(<<"a", "b">>) EXCEPT !.isSnippet = True, !.filterText = Str(<<"e", "a">>)]}

ConvItems == ConvLspItems \cup ConvVimItems

ConvInit == ConvStart(ConvConverters)

ConvNext == \E item \in ConvItems : ConvertToDurationItem(item)

SpecConv == ConvInit /\ [][ConvNext]_vars

\* the latest call is a conversion that produced an item
Produced == convCall.op = "convertToDurationItem" /\ ~convCall.threw
ProducedLsp == Produced /\ isCompletionItem(convCall.item)
ProducedVim == Produced /\ ~isCompletionItem(convCall.item)

\* C11: for every protocol-native item converted by a Converter built with input
\* start inputStart, the produced item's replace-range start (character) is never
\* greater than inputStart, whichever of the three range sources supplied it.
C11_StartNotAfterInput ==
    ProducedLsp => convCall.ret.character <= convCall.before.inputStart

SetMin(S) == CHOOSE n \in S : \A m \in S : n <= m

NamedRange(c) ==
    LET item == c.item
        editRange == c.before.option.itemDefaults.editRange
    IN  IF item.textEdit.t # "none"
        THEN IF item.textEdit.t = "InsertReplaceEdit" THEN c.itemAfter.textEdit.replace
             ELSE c.itemAfter.textEdit.range
        ELSE IF editRange.t # "none"
             THEN IF editRange.t = "InsertReplace"
                  THEN conv.option.itemDefaults.editRange.replace
                  ELSE conv.option.itemDefaults.editRange.range
             ELSE c.before.option.range

\* The same range before the call.
NamedRangeBefore(c) ==
    LET item == c.item
        editRange == c.before.option.itemDefaults.editRange
    IN  IF item.textEdit.t # "none"
        THEN IF item.textEdit.t = "InsertReplaceEdit" THEN item.textEdit.replace
             ELSE item.textEdit.range
        ELSE IF editRange.t # "none"
             THEN IF editRange.t = "InsertReplace" THEN editRange.replace
                  ELSE editRange.range
             ELSE c.before.option.range

\* The range that convertLspCompleteItem works with.
UsedRange(c) ==
    LET got == getReplaceRange(c.item, c.before.option.itemDefaults,
                               Num(c.before.inputStart)).range
    IN  IF got.has THEN got.v ELSE c.before.option.range

\* C13: the range of a protocol-native item is its textEdit's replace range for
\* an insert-or-replace edit and the textEdit's range otherwise; without a
\* textEdit it is itemDefaults.editRange (the replace part of a pair); without
\* either it is option.range.  The item's own textEdit wins over the defaults.
C13_RangeSelection ==
    ProducedLsp =>
        LET c == convCall
        IN  /\ UsedRange(c) = NamedRange(c)
            /\ UsedRange(c).end = NamedRangeBefore(c).end
            /\ c.ret.character = NamedRange(c).start.character

\* an item with its own textEdit is converted under defaults that carry another
\* editRange
C13_Witness ==
    /\ ProducedLsp
    /\ convCall.item.textEdit.t = "InsertReplaceEdit"
    /\ convCall.before.option.itemDefaults.editRange.t = "Range"
    /\ convCall.item.textEdit.replace.end # convCall.before.option.itemDefaults.editRange.range.end
    /\ convCall.item.textEdit.replace # convCall.item.textEdit.insert

\* The line text from a character up to the input start.
TextBeforeInput(c, character) ==
    LET line == c.before.opt.line
        to == Min(c.before.inputStart, Len(line))
    IN  IF character < to THEN [i \in 1..(to - character) |-> line[character + i]]
        ELSE <<>>

\* C17: for every produced item, delta is the length of the line text between
\* the item's character and inputStart when the character is before inputStart
\* and the item's filterText begins with that text, and 0 in every other case;
\* hence 0 <= delta <= inputStart - character when character < inputStart.
C17_Delta ==
    Produced =>
        LET c == convCall
            character == c.ret.character
            between == TextBeforeInput(c, character)
        IN  /\ c.ret.delta =
                  IF character < c.before.inputStart /\ StartsWith(c.ret.filterText, between)
                  THEN Len(between) ELSE 0
            /\ character < c.before.inputStart =>
                  /\ 0 <= c.ret.delta
                  /\ c.ret.delta <= c.before.inputStart - character

\* a delta of two characters
C17_Witness ==
    /\ Produced
    /\ convCall.ret.delta = 2
    /\ convCall.ret.character = 0

\* C18: for every legacy item the produced character is
\* option.range.start.character of the batch default range (not clamped, no
\* range of the item), and dup is true exactly when the item's dup is 1.
C18_Legacy ==
    ProducedVim =>
        /\ convCall.ret.character = convCall.before.option.range.start.character
        /\ convCall.ret.dup <=> (convCall.item.dup = Num(1))

\* a legacy item with dup 1 is produced at a character after the input start
C18_Witness ==
    /\ ProducedVim
    /\ convCall.item.dup = Num(1)
    /\ convCall.ret.dup
    /\ convCall.ret.character > convCall.before.inputStart

\* C19: convertToDurationItem has no effect on its inputs: the raw item, the
\* batch ConvertOption and the line/position snapshot are after the call what
\* they were before it.
C19_InputsUnchanged ==
    convCall.op = "convertToDurationItem" =>
        /\ convCall.itemAfter = convCall.item
        /\ conv.option = convCall.before.option
        /\ conv.opt = convCall.before.opt
        /\ conv.inputStart = convCall.before.inputStart

\* the latest conversion, had it been the first one of this Converter
Alone == convertToDurationItem(convHist.fresh, convCall.item, convCall.index)

\* the latest conversion done once more, on the item as the call left it
Again == convertToDurationItem(conv, convCall.itemAfter, convCall.index)

\* C33: for one Converter, the item produced for a raw item is the same
\* whatever other items were converted before it and however many times it is
\* converted: the slice caches and the in-place range clamp never change a
\* later result; only minCharacter depends on the items already converted.
C33_OrderIndependent ==
    convCall.op = "convertToDurationItem" =>
        /\ Alone.threw = convCall.threw
        /\ Alone.ret = convCall.ret
        /\ Again.threw = convCall.threw
        /\ Again.ret = convCall.ret
        /\ Again.self = conv

\* a second conversion that read a slice the first one had cached, on a
\* Converter whose minCharacter the first one had lowered
C33_Witness ==
    /\ Produced
    /\ convHist.count = 2
    /\ convCall.ret.delta > 0
    /\ MapHas(convCall.before.previousCache, convCall.ret.character)
    /\ convCall.before.minCharacter # convHist.fresh.minCharacter

(***************************************************************************)
(* Conversion of protocol-native items: word and sort key.                 *)
(***************************************************************************)
WordLine == <<"a", "b">>

\* the default range ends at the cursor, or after the end of the line
WordConverters ==
    {Converter(in[1], ConvertOption(in[2], itemDefaults, FALSE), OptionForWord(WordLine, in[3])) :
        <<in, itemDefaults>> \in
            {<<0, RangeOf(0, 1), 1>>, <<1, RangeOf(1, 2), 2>>, <<0, RangeOf(0, 3), 2>>}
            \X {NoItemDefaults, ItemDefaults(Num(InsertTextFormat.Snippet), NoEditRange)}}

WordLabels == {<<"a">>, <<" ", "a">>, <<"a", " ">>, <<" ">>, <<>>}

WordTexts ==
    {<<"a", "b">>,
     <<"a", "LF", "b">>,
     <<"a", "CR">>,
     <<"a", "(", "b", ")">>,
     <<"a", "(", "b", ")", "LF", "b">>,
     <<"a", "(", "LF", "b">>,
     <<"a", "$", "1", "LF", "b">>,
     <<"a", "(", "$", "1", ")">>}

WordFormats == {Undefined, Num(InsertTextFormat.PlainText), Num(InsertTextFormat.Snippet)}

WordKinds == {Undefined, Num(CompletionItemKind.Method), Num(CompletionItemKind.Function)}

\* scores in tenths: negative, fractional, and the two around the code point
\* U+10000
WordScores == {-10, -5, 0, 4, 5, 10, 10485750, 10485760}

WordItems ==
    {LspItem(label) : label \in WordLabels}
    \cup {[LspItem(<<"a">>) EXCEPT !.insertText = Str(text), !.insertTextFormat = format,
                                   !.kind = kind] :
            <<text, format, kind>> \in WordTexts \X WordFormats \X WordKinds}
    \cup {[LspItem(<<"a">>) EXCEPT !.data = Data(Str(<<"b">>), Num(0), TRUE)],
          [LspItem(<<"a">>) EXCEPT !.textEdit = TextEdit(RangeOf(0, 1), <<"a", "LF">>),
                                   !.labelDetails = LabelDetails(<<"a">>, <<>>),
                                   !.tags = Tags({CompletionItemTag.Deprecated})]}
    \cup {[LspItem(<<"a">>) EXCEPT !.score = Num(score)] : score \in WordScores}
    \cup {[LspItem(<<"a">>) EXCEPT !.score = Num(10), !.sortText = sortText] :
            sortText \in {Str(<<>>), Str(<<97>>)}}

WordInit == ConvStart(WordConverters)

WordNext == \E item \in WordItems : ConvertToDurationItem(item)

SpecWord == WordInit /\ [][WordNext]_vars

\* the item has no data.word and no textEdit
PlainWordItem(item) ==
    /\ ~(item.data.has /\ IsString(item.data.word))
    /\ item.textEdit.t = "none"

\* C14: for a protocol-native item with no textEdit and no data.word but with an
\* insertText, the word returned by getWord is a prefix of insertText without
\* line feed and carriage return, and for a snippet of kind Method or Function it
\* holds nothing from the first "(" that is followed by at least one character.
C14_WordFromInsertText ==
    (ProducedLsp /\ PlainWordItem(convCall.item) /\ IsString(convCall.item.insertText)) =>
        LET item == convCall.item
            itemDefaults == convCall.before.option.itemDefaults
            text == item.insertText.s
            word == getWord(item, itemDefaults)
            opens == {i \in 1..Len(text) - 1 : text[i] = "("}
        IN  /\ StartsWith(text, word)
            /\ \A i \in 1..Len(word) : word[i] \notin {"LF", "CR"}
            /\ (/\ isSnippetItem(item, itemDefaults)
                /\ item.kind \in {Num(CompletionItemKind.Method),
                                  Num(CompletionItemKind.Function)}) =>
                  \A i \in opens : Len(word) < i

\* C15: for a protocol-native item with no data.word, no textEdit and no string
\* insertText, the produced word is the item's label with surrounding
\* whitespace trimmed, and it is empty only when that label is empty.
C15_WordFromLabel ==
    (ProducedLsp /\ PlainWordItem(convCall.item) /\ ~IsString(convCall.item.insertText)) =>
        /\ convCall.ret.word = Trim(convCall.item.label.s)
        /\ convCall.ret.word = <<>> => Trim(convCall.item.label.s) = <<>>

RECURSIVE StrLess(_, _)
\* a < b for two strings: by code units, a proper prefix first
StrLess(a, b) ==
    IF b = <<>> THEN FALSE
    ELSE IF a = <<>> THEN TRUE
    ELSE IF a[1] # b[1] THEN a[1] < b[1]
    ELSE StrLess(Tail(a), Tail(b))

\* The string of the one scalar value codePoint.
Scalar(codePoint) ==
    IF codePoint <= 65535 THEN <<codePoint>>
    ELSE <<55296 + ((codePoint - 65536) \div 1024), 56320 + ((codePoint - 65536) % 1024)>>

IsScalar(codePoint) ==
    /\ 0 <= codePoint /\ codePoint <= 1114111
    /\ ~(55296 <= codePoint /\ codePoint <= 57343)

\* C20: for a protocol-native item with no sortText and a numeric score the
\* conversion succeeds and gives a sortText of the one scalar 1114111 minus the
\* rounded score; of two such items the one with the higher rounded score has
\* the smaller sortText under string comparison.
C20_SortKey ==
    /\ (/\ convCall.op = "convertToDurationItem"
        /\ isCompletionItem(convCall.item)
        /\ IsNumber(convCall.item.score)
        /\ ~Truthy(convCall.item.sortText)) =>
          LET codePoint == 1114111 - MathRound(convCall.item.score.n)
          IN  /\ ~convCall.threw
              /\ IsScalar(codePoint)
              /\ convCall.ret.sortText = Str(Scalar(codePoint))
    /\ \A k1, k2 \in convHist.keys :
          k1.score > k2.score => StrLess(k1.sortText, k2.sortText)

(***************************************************************************)
(* Stateless helpers.  A specification of a helper starts with no call     *)
(* made and calls the helper with inputs drawn from a set.                 *)
(***************************************************************************)
\* everything but the helpers is idle
OnlyHelpers ==
    /\ MruIdle
    /\ stopCall = "idle"
    /\ resumeCall = "idle"
    /\ ConvIdle
    /\ attachState = "idle"
    /\ linksState = "idle"
    /\ formatState = "idle"

HelperInit ==
    /\ utilCall = [op |-> "none"]
    /\ OnlyHelpers

HelperFrame ==
    UNCHANGED <<mruVars, stopCall, resumeCall, convVars, attachState, linksState, formatState>>

(***************************************************************************)
(* checkIgnoreRegexps.  A pattern is a text over letters and "(": it is a  *)
(* literal when it has no "(", and ill-formed (new RegExp throws a         *)
(* SyntaxError) when it has one, since no ")" closes it.                   *)
(***************************************************************************)
IllFormed(regexp) == Includes(regexp, "(")

\* the text occurs somewhere in the input
Occurs(text, input) ==
    \E i \in 0..(Len(input) - Len(text)) : Slice(input, i, i + Len(text)) = text

\* new RegExp(regexp).test(input)
RegExpTest(regexp, input) ==
    IF IllFormed(regexp) THEN [threw |-> TRUE, ret |-> FALSE]
    ELSE [threw |-> FALSE, ret |-> Occurs(regexp, input)]

\* an optional list of patterns
NoList == [has |-> FALSE, v |-> <<>>]
List(v) == [has |-> TRUE, v |-> v]

RECURSIVE SomeUncaught(_, _)
\* mutant: the SyntaxError of a pattern is not caught
SomeUncaught(regexps, input) ==
    IF regexps = <<>> THEN [threw |-> FALSE, ret |-> FALSE]
    ELSE LET test == RegExpTest(Head(regexps), input)
         IN  IF test.threw THEN [threw |-> TRUE, ret |-> FALSE]
             ELSE IF test.ret THEN [threw |-> FALSE, ret |-> TRUE]
             ELSE SomeUncaught(Tail(regexps), input)

RECURSIVE SomeMatches(_, _)
\* ignoreRegexps.some(regexp => { try ... catch (e) { return false } }): the
\* patterns are tried in order up to the first that matches
SomeMatches(regexps, input) ==
    IF regexps = <<>> THEN [threw |-> FALSE, ret |-> FALSE]
    ELSE LET test == RegExpTest(Head(regexps), input)
         IN  IF ~test.threw /\ test.ret THEN [threw |-> FALSE, ret |-> TRUE]
             ELSE SomeMatches(Tail(regexps), input)

checkIgnoreRegexps(ignoreRegexps, input) ==
    IF ~ignoreRegexps.has \/ Len(ignoreRegexps.v) = 0 \/ Len(input) = 0
    THEN [threw |-> FALSE, ret |-> FALSE]
    ELSE SomeMatches(ignoreRegexps.v, input)

IgnorePatterns == {<<>>, <<"a">>, <<"b">>, <<"a", "b">>, <<"(">>, <<"a", "(">>}
IgnoreLists == {NoList} \cup {List(v) : v \in UNION {[1..k -> IgnorePatterns] : k \in 0..MaxPatterns}}
IgnoreInputs == {<<>>, <<"a">>, <<"b">>, <<"b", "a">>, <<"a", "b">>}

CheckIgnoreRegexps(ignoreRegexps, input) ==
    /\ LET r == checkIgnoreRegexps(ignoreRegexps, input)
       IN  utilCall' = [op |-> "checkIgnoreRegexps", ignoreRegexps |-> ignoreRegexps,
                        input |-> input, threw |-> r.threw, ret |-> r.ret]
    /\ HelperFrame

IgnoreNext ==
    \E ignoreRegexps \in IgnoreLists, input \in IgnoreInputs :
        CheckIgnoreRegexps(ignoreRegexps, input)

SpecIgnore == HelperInit /\ [][IgnoreNext]_vars

\* C21: checkIgnoreRegexps never throws; an ill-formed pattern counts as not
\* matching and the remaining patterns are still tried, so the result is true
\* exactly when some well-formed pattern of the list matches the input; it is
\* false for a missing or empty list and for an empty input.
C21_IgnoreRegexps ==
    utilCall.op = "checkIgnoreRegexps" =>
        LET regexps == utilCall.ignoreRegexps.v
            input == utilCall.input
        IN  /\ ~utilCall.threw
            /\ (~utilCall.ignoreRegexps.has \/ regexps = <<>> \/ input = <<>>) =>
                  ~utilCall.ret
            /\ (utilCall.ignoreRegexps.has /\ input # <<>>) =>
                  (utilCall.ret <=>
                      \E i \in 1..Len(regexps) :
                          ~IllFormed(regexps[i]) /\ Occurs(regexps[i], input))

\* a pattern after an ill-formed one matches
C21_Witness ==
    /\ utilCall.op = "checkIgnoreRegexps"
    /\ utilCall.ret
    /\ Len(utilCall.ignoreRegexps.v) = 2
    /\ IllFormed(utilCall.ignoreRegexps.v[1])

(***************************************************************************)
(* toCompleteDoneItem.  An object without fields is the empty record.      *)
(***************************************************************************)
EmptyObject == <<>>

\* a DurationCompleteItem: the fields toCompleteDoneItem reads
DurationItem(source, index, isSnippet, menu, user_data) ==
    [word |-> <<"a">>, abbr |-> Str(<<"a">>), kind |-> Num(CompletionItemKind.Method),
     source |-> source, index |-> index, isSnippet |-> isSnippet, menu |-> menu,
     user_data |-> user_data]

NoDurationItem == [has |-> FALSE, v |-> DurationItem(<<>>, 0, Undefined, Undefined, Undefined)]
SomeDurationItem(item) == [has |-> TRUE, v |-> item]

\* mutant: user_data is always built from source and index
toCompleteDoneItemBuilt(item) ==
    IF ~item.has THEN EmptyObject
    ELSE [word |-> item.v.word,
          abbr |-> item.v.abbr,
          kind |-> item.v.kind,
          source |-> item.v.source,
          isSnippet |-> item.v.isSnippet = True,
          menu |-> Coalesce(item.v.menu, Str(<<"[">> \o item.v.source \o <<"]">>)),
          user_data |-> item.v.source \o <<":">> \o DecStr(item.v.index)]

toCompleteDoneItem(item) ==
    IF ~item.has THEN EmptyObject
    ELSE [word |-> item.v.word,
          abbr |-> item.v.abbr,
          kind |-> item.v.kind,
          source |-> item.v.source,
          isSnippet |-> item.v.isSnippet = True,
          menu |-> Coalesce(item.v.menu, Str(<<"[">> \o item.v.source \o <<"]">>)),
          user_data |-> IF IsString(item.v.user_data) THEN item.v.user_data.s
                        ELSE item.v.source \o <<":">> \o DecStr(item.v.index)]

DoneItems ==
    {NoDurationItem} \cup
    {SomeDurationItem(DurationItem(source, index, isSnippet, menu, user_data)) :
        <<source, index, isSnippet, menu, user_data>> \in
            {<<"s">>, <<"s", ":">>} \X {0, 7, 10} \X {Undefined, True, False, Num(1)}
            \X {Undefined, Str(<<>>), Str(<<"m">>)}
            \X {Undefined, Str(<<>>), Str(<<"u">>), Num(1)}}

ToCompleteDoneItem(item) ==
    /\ utilCall' = [op |-> "toCompleteDoneItem", item |-> item,
                    ret |-> toCompleteDoneItem(item)]
    /\ HelperFrame

DoneNext == \E item \in DoneItems : ToCompleteDoneItem(item)

SpecDone == HelperInit /\ [][DoneNext]_vars

\* The decimal digits of a number below 100.
Decimal(n) ==
    LET digit == [d \in 0..9 |-> <<"0", "1", "2", "3", "4", "5", "6", "7", "8", "9">>[d + 1]]
    IN  IF n < 10 THEN <<digit[n]>> ELSE <<digit[n \div 10], digit[n % 10]>>

\* C23: toCompleteDoneItem(undefined) is an empty object; for a defined item
\* user_data is item.user_data when that is a string and source:index
\* otherwise, menu is item.menu or [source] when menu is absent, and isSnippet
\* is true only when item.isSnippet is exactly true.
C23_CompleteDoneItem ==
    utilCall.op = "toCompleteDoneItem" =>
        LET item == utilCall.item.v
            ret == utilCall.ret
        IN  IF ~utilCall.item.has THEN DOMAIN ret = {}
            ELSE /\ DOMAIN ret # {}
                 /\ ret.user_data =
                       IF item.user_data.t = "string" THEN item.user_data.s
                       ELSE item.source \o <<":">> \o Decimal(item.index)
                 /\ ret.menu =
                       IF item.menu.t = "undefined"
                       THEN Str(<<"[">> \o item.source \o <<"]">>)
                       ELSE item.menu
                 /\ ret.isSnippet <=> (item.isSnippet = True)

\* an item without a textual user_data and without menu, with an index of two
\* digits and a truthy isSnippet that is not true
C23_Witness ==
    /\ utilCall.op = "toCompleteDoneItem"
    /\ utilCall.item.has
    /\ utilCall.item.v.user_data = Num(1)
    /\ utilCall.item.v.menu = Undefined
    /\ utilCall.item.v.isSnippet = Num(1)
    /\ utilCall.ret.user_data = <<"s", ":", "1", "0">>

(***************************************************************************)
(* getKindText and getKindHighlight.  A highlight group is a whole name.   *)
(***************************************************************************)
DEFAULT_HL_GROUP == "CocSymbolDefault"

highlightsMap ==
    (CompletionItemKind.Text :> "CocSymbolText")
    @@ (CompletionItemKind.Method :> "CocSymbolMethod")
    @@ (CompletionItemKind.Function :> "CocSymbolFunction")
    @@ (CompletionItemKind.Constructor :> "CocSymbolConstructor")
    @@ (CompletionItemKind.Field :> "CocSymbolField")
    @@ (CompletionItemKind.Variable :> "CocSymbolVariable")
    @@ (CompletionItemKind.Class :> "CocSymbolClass")
    @@ (CompletionItemKind.Interface :> "CocSymbolInterface")
    @@ (CompletionItemKind.Module :> "CocSymbolModule")
    @@ (CompletionItemKind.Property :> "CocSymbolProperty")
    @@ (CompletionItemKind.Unit :> "CocSymbolUnit")
    @@ (CompletionItemKind.Value :> "CocSymbolValue")
    @@ (CompletionItemKind.Enum :> "CocSymbolEnum")
    @@ (CompletionItemKind.Keyword :> "CocSymbolKeyword")
    @@ (CompletionItemKind.Snippet :> "CocSymbolSnippet")
    @@ (CompletionItemKind.Color :> "CocSymbolColor")
    @@ (CompletionItemKind.File :> "CocSymbolFile")
    @@ (CompletionItemKind.Reference :> "CocSymbolReference")
    @@ (CompletionItemKind.Folder :> "CocSymbolFolder")
    @@ (CompletionItemKind.EnumMember :> "CocSymbolEnumMember")
    @@ (CompletionItemKind.Constant :> "CocSymbolConstant")
    @@ (CompletionItemKind.Struct :> "CocSymbolStruct")
    @@ (CompletionItemKind.Event :> "CocSymbolEvent")
    @@ (CompletionItemKind.Operator :> "CocSymbolOperator")
    @@ (CompletionItemKind.TypeParameter :> "CocSymbolTypeParameter")

\* mutant: the map's label is not looked up
getKindTextDefault(kind, kindMap, defaultKindText) ==
    IF IsNumber(kind) THEN Str(defaultKindText) ELSE kind

\* kindMap.get(kind) ?? defaultKindText for a number, the kind itself otherwise
getKindText(kind, kindMap, defaultKindText) ==
    IF IsNumber(kind)
    THEN IF MapHas(kindMap, kind.n) THEN Str(kindMap[kind.n]) ELSE Str(defaultKindText)
    ELSE kind

getKindHighlight(kind) ==
    IF IsNumber(kind)
    THEN IF kind.n \in DOMAIN highlightsMap THEN highlightsMap[kind.n] ELSE DEFAULT_HL_GROUP
    ELSE DEFAULT_HL_GROUP

\* kinds: every number around the table, a text, and none
KindInputs ==
    {Num(n) : n \in -1..27} \cup {Str(<<"a">>), Str(<<>>), Undefined}

\* kind maps: without labels, and with a label and an empty label
KindMaps ==
    {NewMap,
     (CompletionItemKind.Class :> <<"C">>) @@ (CompletionItemKind.Constructor :> <<>>)}

GetKindText(kind, kindMap, defaultKindText) ==
    /\ utilCall' = [op |-> "getKindText", kind |-> kind, kindMap |-> kindMap,
                    defaultKindText |-> defaultKindText,
                    ret |-> getKindText(kind, kindMap, defaultKindText)]
    /\ HelperFrame

GetKindHighlight(kind) ==
    /\ utilCall' = [op |-> "getKindHighlight", kind |-> kind, ret |-> getKindHighlight(kind)]
    /\ HelperFrame

KindNext ==
    \/ \E kind \in KindInputs, kindMap \in KindMaps, defaultKindText \in {<<>>, <<"d">>} :
          GetKindText(kind, kindMap, defaultKindText)
    \/ \E kind \in KindInputs : GetKindHighlight(kind)

SpecKind == HelperInit /\ [][KindNext]_vars

\* C24: getKindHighlight gives the built-in group of every numeric kind in the
\* table (CocSymbolClass for Class) and CocSymbolDefault for every other
\* numeric kind and every non-numeric kind; getKindText gives a string kind
\* unchanged and, for a numeric kind, the kind map's label, or the supplied
\* default text when the map has none.
C24_Kind ==
    /\ utilCall.op = "getKindHighlight" =>
          LET kind == utilCall.kind
          IN  /\ (kind.t = "number" /\ kind.n \in 1..25) =>
                    /\ utilCall.ret = highlightsMap[kind.n]
                    /\ utilCall.ret # "CocSymbolDefault"
              /\ kind = Num(7) => utilCall.ret = "CocSymbolClass"
              /\ (kind.t # "number" \/ kind.n \notin 1..25) =>
                    utilCall.ret = "CocSymbolDefault"
    /\ utilCall.op = "getKindText" =>
          LET kind == utilCall.kind
              kindMap == utilCall.kindMap
          IN  /\ kind.t = "string" => utilCall.ret = kind
              /\ kind.t = "number" =>
                    utilCall.ret.s = IF kind.n \in DOMAIN kindMap THEN kindMap[kind.n]
                                     ELSE utilCall.defaultKindText

\* the highlight of a kind outside the table
C24_Witness ==
    /\ utilCall.op = "getKindHighlight"
    /\ utilCall.kind = Num(26)
    /\ utilCall.ret = "CocSymbolDefault"

(***************************************************************************)
(* shouldIndent.  "A" is the upper case of "a"; "TAB" is a tab.            *)
(***************************************************************************)
\* String.prototype.toLowerCase
ToLowerCase(s) == [i \in 1..Len(s) |-> IF s[i] = "A" THEN "a" ELSE s[i]]

\* String.prototype.indexOf of one code unit: -1 when absent
IndexOfUnit(s, c) == FirstOf(s, {c})

RECURSIVE Split(_, _)
\* String.prototype.split(separator)
Split(s, separator) ==
    LET i == IndexOfUnit(s, separator)
    IN  IF i < 0 THEN <<s>>
        ELSE <<Slice(s, 0, i)>> \o Split(Slice(s, i + 1, Len(s)), separator)

\* /^\s/.test(s)
StartsBlank(s) == Len(s) > 0 /\ s[1] \in Whitespace

\* /^\s*$/.test(s)
IsBlank(s) == \A i \in 1..Len(s) : s[i] \in Whitespace

\* Whether one part of indentkeys makes shouldIndent return true.
PartIndents(part, pretext) ==
    IF IndexOfUnit(part, "=") > -1
    THEN LET pieces == Split(part, "=")
             pre == pieces[1]
             post == pieces[2]
             tilde == StartsWith(post, <<"~">>)
             word == IF tilde THEN Slice(post, 1, Len(post)) ELSE post
         IN  IF Len(pretext) < Len(word)
                \/ (Len(pretext) > Len(word)
                    /\ ~StartsBlank(Slice(pretext, 0 - Len(word) - 1, Len(pretext))))
             THEN FALSE
             ELSE IF ~(IF tilde THEN EndsWith(ToLowerCase(pretext), word)
                       ELSE EndsWith(pretext, word))
             THEN FALSE
             ELSE \/ pre = <<>>
                  \/ /\ pre = <<"0">>
                     /\ IsBlank(Slice(pretext, 0, Len(pretext) - Len(word)))
    ELSE FALSE

shouldIndent(indentkeys, pretext) ==
    IF indentkeys = <<>> \/ Includes(Trim(pretext), " ") THEN FALSE
    ELSE LET parts == Split(indentkeys, ",")
         IN  \E i \in 1..Len(parts) : PartIndents(parts[i], pretext)

IndentKeys ==
    {<<>>,
     <<"a">>,
     <<"=">>,
     <<"=", "a">>,
     <<"=", "A">>,
     <<"=", "~", "a">>,
     <<"=", "~", "A">>,
     <<"0", "=", "a">>,
     <<"0", "=", "~", "A", "a">>,
     <<"a", "=", "a">>,
     <<"a", ",", "0", "=", "a", "a">>,
     <<"=", "A", ",", "=", "a", "A">>}

IndentPretexts == UNION {[1..k -> {"a", "A", " ", "TAB"}] : k \in 0..MaxPretext}

ShouldIndent(indentkeys, pretext) ==
    /\ utilCall' = [op |-> "shouldIndent", indentkeys |-> indentkeys, pretext |-> pretext,
                    ret |-> shouldIndent(indentkeys, pretext)]
    /\ HelperFrame

IndentNext ==
    \E indentkeys \in IndentKeys, pretext \in IndentPretexts :
        ShouldIndent(indentkeys, pretext)

SpecIndent == HelperInit /\ [][IndentNext]_vars

\* The text before and after the first "=" of a part.
BeforeEquals(part) == Slice(part, 0, FirstOf(part, {"="}))
AfterEquals(part) == Slice(part, FirstOf(part, {"="}) + 1, Len(part))

\* The parts of indentkeys between its commas.
CommaParts(indentkeys) ==
    LET commas == {i \in 1..Len(indentkeys) : indentkeys[i] = ","}
        starts == {0} \cup commas
    IN  {Slice(indentkeys, from,
               IF \E c \in commas : c > from
               THEN (CHOOSE c \in commas : c > from /\ \A d \in commas : d > from => c <= d) - 1
               ELSE Len(indentkeys)) : from \in starts}

\* Whether the part pat=suffix matches the pretext, as the claim puts it.
PartMatches(part, pretext) ==
    /\ Includes(part, "=")
    /\ LET pat == BeforeEquals(part)
           spec == AfterEquals(part)
           tilde == Len(spec) > 0 /\ spec[1] = "~"
           suffix == IF tilde THEN Slice(spec, 1, Len(spec)) ELSE spec
           before == Len(pretext) - Len(suffix)
       IN  /\ before >= 0
           /\ IF tilde
              THEN ToLowerCase(Slice(pretext, before, Len(pretext))) = ToLowerCase(suffix)
              ELSE Slice(pretext, before, Len(pretext)) = suffix
           /\ before = 0 \/ pretext[before] \in Whitespace
           /\ \/ pat = <<>>
              \/ /\ pat = <<"0">>
                 /\ \A i \in 1..before : pretext[i] \in Whitespace

\* C25: shouldIndent(indentkeys, pretext) is true exactly when some
\* comma-separated part pat=suffix of indentkeys matches: pretext ends with
\* suffix (case-insensitively for a suffix written with a leading tilde), the
\* suffix is the whole pretext or is preceded by whitespace, and pat is empty,
\* or pat is 0 and everything before the suffix is blank.  It is false for an
\* empty indentkeys and for a trimmed pretext that contains a space.
C25_ShouldIndent ==
    utilCall.op = "shouldIndent" =>
        LET indentkeys == utilCall.indentkeys
            pretext == utilCall.pretext
        IN  utilCall.ret <=>
                /\ indentkeys # <<>>
                /\ ~Includes(Trim(pretext), " ")
                /\ \E part \in CommaParts(indentkeys) : PartMatches(part, pretext)

(***************************************************************************)
(* Links (handler/links.ts): openLink and openCurrentLink.                 *)
(*                                                                         *)
(* A run of an async method stops at each await; pc names the await it is  *)
(* at.  Between two steps of a run the cursor may move, which cancels the   *)
(* current token source.  A line is written with "h" for a word character. *)
(***************************************************************************)
\* a DocumentLink: its range on the cursor's line, its target, and the target
\* that languages.resolveDocumentLink gives it
DocumentLink(range, target, resolved) ==
    [range |-> range, target |-> target, resolved |-> resolved]

NoLink == [has |-> FALSE, v |-> DocumentLink(RangeOf(0, 0), Undefined, Undefined)]
SomeLink(link) == [has |-> TRUE, v |-> link]

\* positionInRange(pos, range) == 0: the position is inside the range
positionInRange(pos, range) ==
    IF pos.character < range.start.character THEN -1
    ELSE IF pos.character > range.end.character THEN 1
    ELSE 0

\* the classes of /\w+?:\/\/[^)\]'" ]+/
WordUnit(c) == c = "h"
UrlUnit(c) == c \notin {")", "]", "'", " "}

\* The end of the match of the pattern that starts at index start, -1 if none:
\* word characters, then "://", then at least one more character of the URL.
UrlEnd(line, start) ==
    LET others == {i \in start..(Len(line) - 1) : ~WordUnit(line[i + 1])}
        colon == IF others = {} THEN Len(line)
                 ELSE CHOOSE i \in others : \A j \in others : i <= j
        rest == colon + 3
        stops == {i \in rest..(Len(line) - 1) : ~UrlUnit(line[i + 1])}
        stop == IF stops = {} THEN Len(line)
                ELSE CHOOSE i \in stops : \A j \in stops : i <= j
    IN  IF /\ colon > start
           /\ Slice(line, colon, rest) = <<":", "/", "/">>
           /\ stop > rest
        THEN stop ELSE -1

RECURSIVE LinkOfLine(_, _, _)
\* the while loop over regex.exec(line): the first match around the cursor
LinkOfLine(line, pos, lastIndex) ==
    LET found == {i \in lastIndex..(Len(line) - 1) : UrlEnd(line, i) >= 0}
    IN  IF found = {} THEN NoLink
        ELSE LET start == CHOOSE i \in found : \A j \in found : i <= j
                 stop == UrlEnd(line, start)
             IN  IF start <= pos.character /\ stop >= pos.character
                 THEN SomeLink(DocumentLink(RangeOf(start, stop),
                                            Str(Slice(line, start, stop)), Undefined))
                 ELSE LinkOfLine(line, pos, stop)

\* a new run: what the editor and the provider will answer, and the Links
\* object (its token sources with their cancelled flags, none current)
LinksRun(op, env) ==
    [op |-> op, env |-> env, pc |-> "start", tokens |-> <<>>, tokenSource |-> 0,
     local |-> 0, links |-> <<>>, i |-> 0, link |-> NoLink, opened |-> <<>>,
     outcome |-> "pending", ret |-> FALSE]

\* mutant: the target is not checked
openLinkUnchecked(s, link) ==
    [s EXCEPT !.pc = "openResource", !.opened = Append(@, link.target)]

\* openLink up to its await: the error, or the call of workspace.openResource
openLink(s, link) ==
    IF ~Truthy(link.target) THEN [s EXCEPT !.pc = "done", !.outcome = "threw"]
    ELSE [s EXCEPT !.pc = "openResource", !.opened = Append(@, link.target)]

\* openCurrentLink after getCurrentLink gave link
Found(s, link) ==
    IF link.has THEN openLink([s EXCEPT !.link = link], link.v)
    ELSE [s EXCEPT !.link = link, !.pc = "done", !.outcome = "returned", !.ret = FALSE]

RECURSIVE LinksLoop(_, _)
\* getCurrentLink: the for loop from the i-th link up to its next await
LinksLoop(s, i) ==
    IF i > Len(s.links) THEN [s EXCEPT !.pc = "getline"]
    ELSE LET link == s.links[i]
         IN  IF positionInRange(s.env.pos, link.range) = 0
             THEN IF ~Truthy(link.target)
                  THEN LET fresh == s.tokenSource = 0
                           id == IF fresh THEN Len(s.tokens) + 1 ELSE s.tokenSource
                       IN  [s EXCEPT !.tokens = IF fresh THEN Append(@, FALSE) ELSE @,
                                     !.tokenSource = id, !.local = id,
                                     !.i = i, !.pc = "resolveDocumentLink"]
                  ELSE Found(s, SomeLink(link))
             ELSE LinksLoop(s, i + 1)

\* One step of a run: from the await at pc to the next await or to the end.
LinksStep(s) ==
    CASE s.pc = "getCurrentState" ->
            IF ~s.env.hasProvider THEN [s EXCEPT !.links = <<>>, !.pc = "getCursorPosition"]
            ELSE [s EXCEPT !.tokens = Append(@, FALSE),
                           !.tokenSource = Len(s.tokens) + 1,
                           !.local = Len(s.tokens) + 1,
                           !.pc = "getDocumentLinks"]
      [] s.pc = "getDocumentLinks" ->
            [s EXCEPT !.links = IF s.tokens[s.local] THEN <<>> ELSE s.env.links,
                      !.pc = "getCursorPosition"]
      [] s.pc = "getCursorPosition" -> LinksLoop(s, 1)
      [] s.pc = "resolveDocumentLink" ->
            LET link == [s.links[s.i] EXCEPT !.target = s.links[s.i].resolved]
            IN  IF ~Truthy(link.target) \/ s.tokens[s.local] THEN LinksLoop(s, s.i + 1)
                ELSE Found(s, SomeLink(link))
      [] s.pc = "getline" -> Found(s, LinkOfLine(s.env.line, s.env.pos, 0))
      [] s.pc = "openResource" ->
            IF s.env.openFails THEN [s EXCEPT !.pc = "done", !.outcome = "threw"]
            ELSE [s EXCEPT !.pc = "done", !.outcome = "returned",
                           !.ret = (s.op = "openCurrentLink")]
      [] OTHER -> s

\* cancel(): the current token source is cancelled and dropped
cancel(s) ==
    IF s.tokenSource # 0
    THEN [s EXCEPT !.tokens[s.tokenSource] = TRUE, !.tokenSource = 0]
    ELSE s

LinkTargets == {Undefined, Str(<<>>), Str(<<"h">>)}

\* links of the provider: around the cursor or away from it, with a target,
\* with one that resolves, or with none
ProviderLinks ==
    {<<>>} \cup
    {<<DocumentLink(range, target, resolved)>> :
        <<range, target, resolved>> \in
            {RangeOf(0, 2), RangeOf(5, 6)} \X LinkTargets \X {Undefined, Str(<<"h", "h">>)}}
    \cup {<<DocumentLink(RangeOf(0, 2), Undefined, Undefined),
            DocumentLink(RangeOf(1, 3), Undefined, Str(<<"h">>))>>}

LinkLines ==
    {<<>>,
     <<"h", "h">>,
     <<"h", ":", "/", "/", "h">>,
     <<"h", ":", "/", "/">>,
     <<":", "/", "/", "h", " ", "h", "h", ":", "/", "/", "h", ")">>}

LinkEnvs ==
    {[hasProvider |-> hasProvider, links |-> links, pos |-> Position(character),
      line |-> line, openFails |-> openFails] :
        <<hasProvider, links, character, line, openFails>> \in
            BOOLEAN \X ProviderLinks \X {1, 7} \X LinkLines \X BOOLEAN}

OnlyLinks ==
    /\ MruIdle
    /\ stopCall = "idle"
    /\ resumeCall = "idle"
    /\ ConvIdle
    /\ utilCall = "idle"
    /\ attachState = "idle"
    /\ formatState = "idle"

LinksFrame ==
    UNCHANGED <<mruVars, stopCall, resumeCall, convVars, utilCall, attachState, formatState>>

\* a Links object on which nothing has been called
LinksInit ==
    /\ linksState \in {LinksRun("none", env) : env \in LinkEnvs}
    /\ OnlyLinks

OpenLink(link) ==
    /\ linksState.pc = "start"
    /\ linksState' = openLink([linksState EXCEPT !.op = "openLink", !.link = SomeLink(link)], link)
    /\ LinksFrame

OpenCurrentLink ==
    /\ linksState.pc = "start"
    /\ linksState' = [linksState EXCEPT !.op = "openCurrentLink", !.pc = "getCurrentState"]
    /\ LinksFrame

\* an await of the run is answered
LinksResume ==
    /\ linksState.pc \notin {"start", "done"}
    /\ linksState' = LinksStep(linksState)
    /\ LinksFrame

\* CursorMoved or InsertEnter while the run waits
CursorMoved ==
    /\ linksState.pc \notin {"start", "done"}
    /\ linksState.tokenSource # 0
    /\ linksState' = cancel(linksState)
    /\ LinksFrame

LinksNext ==
    \/ \E target \in LinkTargets : OpenLink(DocumentLink(RangeOf(0, 1), target, Undefined))
    \/ OpenCurrentLink
    \/ LinksResume
    \/ CursorMoved

SpecLinks == LinksInit /\ [][LinksNext]_vars

\* C22: openLink(link) throws and does not call workspace.openResource when
\* link.target is absent; openCurrentLink returns false without opening
\* anything when no link is found at the cursor, and returns true only after
\* openLink completed.
C22_OpenLink ==
    /\ (linksState.op = "openLink" /\ ~Truthy(linksState.link.v.target)) =>
          /\ linksState.outcome = "threw"
          /\ linksState.opened = <<>>
    /\ (linksState.op = "openCurrentLink" /\ linksState.pc = "done" /\ ~linksState.link.has) =>
          /\ linksState.outcome = "returned"
          /\ ~linksState.ret
          /\ linksState.opened = <<>>
    /\ (linksState.op = "openCurrentLink" /\ linksState.ret) =>
          /\ linksState.outcome = "returned"
          /\ linksState.pc = "done"
          /\ linksState.link.has
          /\ linksState.opened = <<linksState.link.v.target>>
          /\ ~linksState.env.openFails
    /\ (linksState.op = "openCurrentLink" /\ linksState.opened # <<>>) => linksState.link.has

\* openLink threw for a link whose target is the empty text
C22_Witness ==
    /\ linksState.op = "openLink"
    /\ linksState.link.v.target = Str(<<>>)
    /\ linksState.outcome = "threw"

(***************************************************************************)
(* attach (attach.ts): the notification and request handlers of one        *)
(* attached plugin.                                                        *)
(*                                                                         *)
(* pendingNotifications is a Map: its entries in insertion order, one per  *)
(* key.  arrived and notified are history: the notifications the default   *)
(* branch took while the plugin was not ready, and how many notifications  *)
(* came in all.  calls are the calls of plugin.cocAction and events.fire   *)
(* made for notifications, in order.                                       *)
(***************************************************************************)
\* mutant: no action is exempt from waiting
NoActionsNoWait == {}

ACTIONS_NO_WAIT == {"installExtensions", "updateExtensions"}

\* the cases of the notification switch that fire the event of the same name
EventMethods ==
    {"TaskExit", "TaskStderr", "TaskStdout", "GlobalChange", "PromptInsert", "InputChar",
     "MenuInput", "OptionSet", "PromptKeyPress", "FloatBtnClick", "CompleteStop"}

RequestIds == 1..MaxReq

\* a request nothing was done for yet
NoRequest ==
    [pc |-> "none", method |-> "", ready |-> FALSE, actions |-> 0, fires |-> 0,
     outcome |-> "none", sends |-> <<>>]

\* the state right after attach(opts): the plugin is not ready, the 'ready'
\* listener is registered, nothing is pending
NewAttach ==
    [isReady |-> FALSE, disposed |-> FALSE, replays |-> 0, pending |-> <<>>,
     arrived |-> <<>>, calls |-> <<>>, notified |-> 0, requesting |-> FALSE,
     requests |-> [id \in RequestIds |-> NoRequest]]

Entry(method, args) == [method |-> method, args |-> args]

\* Map.set: the value of an existing key is replaced where the key stands
PendingSet(pending, method, args) ==
    IF \E i \in 1..Len(pending) : pending[i].method = method
    THEN [i \in 1..Len(pending) |->
            IF pending[i].method = method THEN Entry(method, args) ELSE pending[i]]
    ELSE Append(pending, Entry(method, args))

\* toText(error) of attach.ts: the message of an Error, the text of a string
errorToText(error) == IF error.isError THEN error.message ELSE error.text

\* mutant: the listener stays registered
onReadyKept(s) ==
    [s EXCEPT !.replays = @ + 1,
              !.calls = @ \o [i \in 1..Len(s.pending) |->
                                [fn |-> "cocAction", method |-> s.pending[i].method,
                                 args |-> s.pending[i].args, how |-> "replay"]],
              !.pending = <<>>]

\* events.fire('ready'): the listener, when it is still registered, disposes
\* itself, calls cocAction for every pending entry and clears the map
onReady(s) ==
    IF s.disposed THEN s
    ELSE [s EXCEPT !.disposed = TRUE,
                   !.replays = @ + 1,
                   !.calls = @ \o [i \in 1..Len(s.pending) |->
                                     [fn |-> "cocAction", method |-> s.pending[i].method,
                                      args |-> s.pending[i].args, how |-> "replay"]],
                   !.pending = <<>>]

\* plugin.init: the plugin is ready and fires 'ready'
init(s) == onReady([s EXCEPT !.isReady = TRUE])

\* the 'notification' handler up to its first await (what follows the await
\* changes nothing here: a failure of cocAction is logged)
onNotification(s, method, args) ==
    LET t == [s EXCEPT !.notified = @ + 1]
    IN  CASE method = "VimEnter" -> init(t)
          [] method = "Log" -> t
          [] method \in EventMethods ->
                [t EXCEPT !.calls = Append(@, [fn |-> "fire", method |-> method,
                                                args |-> args, how |-> "direct"])]
          [] method = "CocAutocmd" ->
                [t EXCEPT !.calls = Append(@, [fn |-> "fire", method |-> Head(args),
                                                args |-> Tail(args), how |-> "direct"])]
          [] method = "redraw" -> t
          [] OTHER ->
                IF ~t.isReady
                THEN [t EXCEPT !.pending = PendingSet(@, method, args),
                               !.arrived = Append(@, Entry(method, args))]
                ELSE [t EXCEPT !.calls = Append(@, [fn |-> "cocAction", method |-> method,
                                                     args |-> args, how |-> "direct"])]

\* the 'request' handler up to its first await, or to its end when it has none
onRequest(s, id, method) ==
    LET r == [NoRequest EXCEPT !.method = method, !.ready = s.isReady]
    IN  IF method = "CocAutocmd"
        THEN [s EXCEPT !.requesting = TRUE,
                       !.requests[id] = [r EXCEPT !.pc = "fire", !.fires = 1]]
        ELSE IF ~s.isReady /\ method \notin ACTIONS_NO_WAIT
        THEN [s EXCEPT !.requesting = FALSE,
                       !.requests[id] = [r EXCEPT !.pc = "done", !.outcome = "not ready",
                                                  !.sends = <<[value |-> "Plugin not ready",
                                                               isError |-> TRUE]>>]]
        ELSE [s EXCEPT !.requesting = TRUE,
                       !.requests[id] = [r EXCEPT !.pc = "cocAction", !.actions = 1]]

\* mutant: a failure is not answered
onSettledSilent(s, id, result) ==
    LET r == s.requests[id]
    IN  IF result.ok
        THEN [s EXCEPT !.requesting = FALSE,
                       !.requests[id].pc = "done",
                       !.requests[id].outcome = "ok",
                       !.requests[id].sends =
                            Append(@, [value |-> IF r.pc = "fire" THEN "undefined" ELSE result.value,
                                       isError |-> FALSE])]
        ELSE [s EXCEPT !.requesting = FALSE,
                       !.requests[id].pc = "done",
                       !.requests[id].outcome = "failed"]

\* the 'request' handler after its await: the answer, or the catch block
onSettled(s, id, result) ==
    LET r == s.requests[id]
    IN  IF result.ok
        THEN [s EXCEPT !.requesting = FALSE,
                       !.requests[id].pc = "done",
                       !.requests[id].outcome = "ok",
                       !.requests[id].sends =
                            Append(@, [value |-> IF r.pc = "fire" THEN "undefined" ELSE result.value,
                                       isError |-> FALSE])]
        ELSE [s EXCEPT !.requesting = FALSE,
                       !.requests[id].pc = "done",
                       !.requests[id].outcome = "failed",
                       !.requests[id].sends =
                            Append(@, [value |-> errorToText(result.error), isError |-> TRUE])]

Fulfilled == [ok |-> TRUE, value |-> "res", error |-> [isError |-> FALSE, message |-> "", text |-> ""]]
Rejected(error) == [ok |-> FALSE, value |-> "", error |-> error]

\* what a promise of events.fire or plugin.cocAction settles with
Settlements ==
    {Fulfilled,
     Rejected([isError |-> TRUE, message |-> "message", text |-> "Error: message"]),
     Rejected([isError |-> FALSE, message |-> "", text |-> "text"])}

NotificationMethods == {"VimEnter", "Log", "TaskExit", "CocAutocmd", "redraw", "foo", "bar"}
NotificationArgs == {<<1>>, <<2>>}
RequestMethods == {"CocAutocmd", "installExtensions", "updateExtensions", "foo"}

OnlyAttach ==
    /\ MruIdle
    /\ stopCall = "idle"
    /\ resumeCall = "idle"
    /\ ConvIdle
    /\ utilCall = "idle"
    /\ linksState = "idle"
    /\ formatState = "idle"

AttachFrame ==
    UNCHANGED <<mruVars, stopCall, resumeCall, convVars, utilCall, linksState, formatState>>

AttachInit ==
    /\ attachState = NewAttach
    /\ OnlyAttach

Notification(method, args) ==
    /\ attachState.notified < MaxNotif
    /\ attachState' = onNotification(attachState, method, args)
    /\ AttachFrame

Request(id, method) ==
    /\ attachState.requests[id].pc = "none"
    /\ attachState' = onRequest(attachState, id, method)
    /\ AttachFrame

Settled(id, result) ==
    /\ attachState.requests[id].pc \in {"fire", "cocAction"}
    /\ attachState' = onSettled(attachState, id, result)
    /\ AttachFrame

NotifyNext ==
    \E method \in NotificationMethods, args \in NotificationArgs : Notification(method, args)

SpecNotify == AttachInit /\ [][NotifyNext]_vars

RequestNext ==
    \/ Notification("VimEnter", <<1>>)
    \/ \E id \in RequestIds, method \in RequestMethods : Request(id, method)
    \/ \E id \in RequestIds, result \in Settlements : Settled(id, result)

SpecRequest == AttachInit /\ [][RequestNext]_vars

\* the requests that were started
Started == {id \in RequestIds : attachState.requests[id].pc # "none"}

\* C26: a request that arrives while the plugin is not ready and whose method
\* is neither CocAutocmd, installExtensions nor updateExtensions is answered
\* with the error 'Plugin not ready' and plugin.cocAction is not called for
\* it; installExtensions and updateExtensions requests are passed to
\* plugin.cocAction whether or not the plugin is ready.
C26_RequestGating ==
    \A id \in Started :
        LET r == attachState.requests[id]
        IN  /\ (~r.ready /\ r.method \notin {"CocAutocmd", "installExtensions", "updateExtensions"}) =>
                /\ r.sends = <<[value |-> "Plugin not ready", isError |-> TRUE]>>
                /\ r.actions = 0
            /\ r.method \in {"installExtensions", "updateExtensions"} => r.actions = 1

\* one request was refused and an installExtensions request, also sent before
\* the plugin was ready, went to plugin.cocAction
C26_Witness ==
    \E id, other \in Started :
        /\ attachState.requests[id].method = "foo"
        /\ ~attachState.requests[id].ready
        /\ attachState.requests[id].pc = "done"
        /\ attachState.requests[other].method = "installExtensions"
        /\ ~attachState.requests[other].ready
        /\ attachState.requests[other].actions = 1

\* how often an entry occurs in a sequence of entries
Count(entries, e) == Cardinality({i \in 1..Len(entries) : entries[i] = e})

\* the notifications that the replay passed to plugin.cocAction
Replayed ==
    LET at == {i \in 1..Len(attachState.calls) : attachState.calls[i].how = "replay"}
        RECURSIVE Take(_)
        Take(n) ==
            IF n = 0 THEN <<>>
            ELSE IF n \in at
                 THEN Append(Take(n - 1), Entry(attachState.calls[n].method, attachState.calls[n].args))
                 ELSE Take(n - 1)
    IN  Take(Len(attachState.calls))

\* C27: every notification that reached the default branch while the plugin
\* was not ready is dispatched to plugin.cocAction exactly once, with its own
\* arguments, when 'ready' fires, also when several notifications of the same
\* method arrived before; none is lost or duplicated.
C27_PendingReplayed ==
    attachState.isReady =>
        /\ Len(Replayed) = Len(attachState.arrived)
        /\ \A i \in 1..Len(attachState.arrived) :
              Count(Replayed, attachState.arrived[i]) = Count(attachState.arrived, attachState.arrived[i])

\* C28: the replay happens at most once per attach: the 'ready' listener
\* disposes itself before replaying, pendingNotifications is empty after the
\* replay, and a notification that arrives after the plugin is ready is
\* dispatched directly and never added to pendingNotifications.
C28_ReplayOnce ==
    /\ [](attachState.replays <= 1)
    /\ [](attachState.replays = 1 => (attachState.disposed /\ attachState.pending = <<>>))
    /\ [][(attachState.isReady /\ attachState'.notified = attachState.notified + 1) =>
            /\ attachState'.pending = <<>>
            /\ attachState'.arrived = attachState.arrived
            /\ Len(SelectSeq(attachState'.calls, LAMBDA c : c.how = "replay"))
                 = Len(SelectSeq(attachState.calls, LAMBDA c : c.how = "replay"))]_vars

\* 'ready' fired twice, a pending notification was replayed and a later one
\* was dispatched directly
C28_Witness ==
    /\ attachState.replays = 1
    /\ attachState.notified = MaxNotif
    /\ \E i, j \in 1..Len(attachState.calls) :
          /\ i < j
          /\ attachState.calls[i].how = "replay"
          /\ attachState.calls[j].how = "direct"
          /\ attachState.calls[j].fn = "cocAction"

C30_Requesting ==
    attachState.requesting <=>
        \E id \in RequestIds : attachState.requests[id].pc \in {"fire", "cocAction"}

(***************************************************************************)
(* Links.getLinks (handler/links.ts): calls that overlap.                  *)
(*                                                                         *)
(* The Links object is its token sources and the current one, as in the    *)
(* runs above; every call keeps the token source it made in a local.       *)
(* event is history: a CursorMoved or InsertEnter came while the call was  *)
(* waiting for the provider.                                               *)
(***************************************************************************)
CallIds == 1..MaxCalls

NoCall == [pc |-> "none", local |-> 0, event |-> FALSE, provided |-> <<>>, ret |-> <<>>]

\* a Links object on which getLinks was not called yet
NewLinks ==
    [tokens |-> <<>>, tokenSource |-> 0, calls |-> [id \in CallIds |-> NoCall]]

\* getLinks of call id, from its await to the next one or to its return;
\* hasProvider and links are what languages answers
getLinks(s, id, hasProvider, links) ==
    LET c == s.calls[id]
    IN  CASE c.pc = "none" -> [s EXCEPT !.calls[id].pc = "getCurrentState"]
          [] c.pc = "getCurrentState" ->
                IF ~hasProvider
                THEN [s EXCEPT !.calls[id].pc = "done", !.calls[id].ret = <<>>]
                ELSE [s EXCEPT !.tokens = Append(@, FALSE),
                               !.tokenSource = Len(s.tokens) + 1,
                               !.calls[id].local = Len(s.tokens) + 1,
                               !.calls[id].pc = "getDocumentLinks"]
          [] c.pc = "getDocumentLinks" ->
                [s EXCEPT !.calls[id].pc = "done",
                          !.calls[id].provided = links,
                          !.calls[id].ret = IF s.tokens[c.local] THEN <<>> ELSE links]
          [] OTHER -> s

ProvidedLinks == {<<"link">>, <<"link", "other">>}

GetLinksInit ==
    /\ linksState = NewLinks
    /\ OnlyLinks

GetLinks(id) ==
    /\ linksState.calls[id].pc = "none"
    /\ linksState' = getLinks(linksState, id, TRUE, <<>>)
    /\ LinksFrame

GetLinksResume(id, hasProvider, links) ==
    /\ linksState.calls[id].pc \in {"getCurrentState", "getDocumentLinks"}
    /\ linksState' = getLinks(linksState, id, hasProvider, links)
    /\ LinksFrame

\* CursorMoved or InsertEnter: cancel()
LinksEvent ==
    /\ \E id \in CallIds : linksState.calls[id].pc \notin {"none", "done"}
    /\ linksState' =
          [cancel(linksState) EXCEPT
              !.calls = [id \in CallIds |->
                            IF @[id].pc = "getDocumentLinks"
                            THEN [@[id] EXCEPT !.event = TRUE] ELSE @[id]]]
    /\ LinksFrame

GetLinksNext ==
    \/ \E id \in CallIds : GetLinks(id)
    \/ \E id \in CallIds, hasProvider \in BOOLEAN, links \in ProvidedLinks :
          GetLinksResume(id, hasProvider, links)
    \/ LinksEvent

SpecGetLinks == GetLinksInit /\ [][GetLinksNext]_vars

\* C31: when a CursorMoved or InsertEnter event occurs while getLinks calls
\* are waiting for the provider, every one of them returns an empty list, also
\* when two calls overlap; a call with no such event during its wait returns
\* the provider's links.
C31_Cancellation ==
    \A id \in CallIds :
        LET c == linksState.calls[id]
        IN  (c.pc = "done" /\ c.local # 0) =>
                c.ret = IF c.event THEN <<>> ELSE c.provided

(***************************************************************************)
(* FormatHandler (handler/format.ts): format on save.                      *)
(*                                                                         *)
(* Every save runs its own willSaveWaitUntil with its own token source and *)
(* timer.  A step is one task of the event loop: the answer of the editor, *)
(* the timer's callback, or the settling of the provider's promise, each   *)
(* with the continuations it makes runnable.  first is history: whether    *)
(* the provider's promise or the timer came first.                         *)
(***************************************************************************)
SaveIds == 1..MaxSaves

\* what a promise of TextEdit[] | undefined holds: an array of edits or not
Edits(list) == [isArray |-> TRUE, list |-> list]
NoEdits == [isArray |-> FALSE, list |-> <<>>]

\* a document that was not saved yet
NoSave ==
    [pc |-> "none", timer |-> "unset", cancelled |-> FALSE, provider |-> "none",
     answer |-> NoEdits, first |-> "none", waitUntil |-> "none", edits |-> NoEdits]

\* the listener of onWillSaveTextDocument up to the first await of
\* willSaveWaitUntil
onWillSaveTextDocument(r, shouldFormatOnSave, hasFormatProvider) ==
    IF ~shouldFormatOnSave THEN [r EXCEPT !.pc = "done"]
    ELSE IF ~hasFormatProvider
    THEN [r EXCEPT !.pc = "done", !.waitUntil = "resolved", !.edits = NoEdits]
    ELSE [r EXCEPT !.pc = "getFormatOptions", !.waitUntil = "pending"]

\* after await workspace.getFormatOptions: the token source, the timer and
\* the request to the provider
afterFormatOptions(r) ==
    [r EXCEPT !.pc = "race", !.timer = "armed", !.provider = "pending"]

\* the callback of setTimeout, and what the race then continues with
onTimeout(r) ==
    LET fired == [r EXCEPT !.timer = "fired", !.cancelled = TRUE,
                           !.first = IF @ = "none" THEN "timer" ELSE @]
    IN  IF r.pc = "race"
        THEN [fired EXCEPT !.pc = "done", !.waitUntil = "resolved", !.edits = NoEdits]
        ELSE fired

\* mutant: the timer is left running
onProvidedKeepTimer(r, settled) ==
    LET seen == [r EXCEPT !.provider = IF settled.ok THEN "resolved" ELSE "rejected",
                          !.answer = settled.value,
                          !.first = IF @ = "none" THEN "provider" ELSE @]
    IN  IF r.pc # "race" THEN seen
        ELSE IF ~settled.ok
        THEN [seen EXCEPT !.pc = "done", !.waitUntil = "rejected"]
        ELSE [seen EXCEPT !.pc = "done", !.waitUntil = "resolved",
                          !.edits = IF settled.value.isArray THEN settled.value ELSE NoEdits]

\* the promise of provideDocumentFormattingEdits settles, and what the race
\* then continues with: clearTimeout and the return, or the rejection
onProvided(r, settled) ==
    LET seen == [r EXCEPT !.provider = IF settled.ok THEN "resolved" ELSE "rejected",
                          !.answer = settled.value,
                          !.first = IF @ = "none" THEN "provider" ELSE @]
    IN  IF r.pc # "race" THEN seen
        ELSE IF ~settled.ok
        THEN [seen EXCEPT !.pc = "done", !.waitUntil = "rejected"]
        ELSE [seen EXCEPT !.pc = "done", !.timer = "cleared", !.waitUntil = "resolved",
                          !.edits = IF settled.value.isArray THEN settled.value ELSE NoEdits]

\* what the provider's promise settles with: edits, null, or an error
ProviderSettlements ==
    {[ok |-> TRUE, value |-> Edits(<<>>)],
     [ok |-> TRUE, value |-> Edits(<<"edit">>)],
     [ok |-> TRUE, value |-> NoEdits],
     [ok |-> FALSE, value |-> NoEdits]}

OnlyFormat ==
    /\ MruIdle
    /\ stopCall = "idle"
    /\ resumeCall = "idle"
    /\ ConvIdle
    /\ utilCall = "idle"
    /\ attachState = "idle"
    /\ linksState = "idle"

FormatFrame ==
    UNCHANGED <<mruVars, stopCall, resumeCall, convVars, utilCall, attachState, linksState>>

FormatInit ==
    /\ formatState = [id \in SaveIds |-> NoSave]
    /\ OnlyFormat

WillSave(id, shouldFormatOnSave, hasFormatProvider) ==
    /\ formatState[id].pc = "none"
    /\ formatState' = [formatState EXCEPT
                          ![id] = onWillSaveTextDocument(@, shouldFormatOnSave, hasFormatProvider)]
    /\ FormatFrame

FormatOptions(id) ==
    /\ formatState[id].pc = "getFormatOptions"
    /\ formatState' = [formatState EXCEPT ![id] = afterFormatOptions(@)]
    /\ FormatFrame

Timeout(id) ==
    /\ formatState[id].timer = "armed"
    /\ formatState' = [formatState EXCEPT ![id] = onTimeout(@)]
    /\ FormatFrame

Provided(id, settled) ==
    /\ formatState[id].provider = "pending"
    /\ formatState' = [formatState EXCEPT ![id] = onProvided(@, settled)]
    /\ FormatFrame

FormatNext ==
    \/ \E id \in SaveIds, shouldFormatOnSave, hasFormatProvider \in BOOLEAN :
          WillSave(id, shouldFormatOnSave, hasFormatProvider)
    \/ \E id \in SaveIds : FormatOptions(id)
    \/ \E id \in SaveIds : Timeout(id)
    \/ \E id \in SaveIds, settled \in ProviderSettlements : Provided(id, settled)

SpecFormat == FormatInit /\ [][FormatNext]_vars

\* C32: for a document that is formatted on save and has a provider, the
\* edits handed to waitUntil are the provider's edits when the provider
\* answers with an array before the timer fires, and undefined when the timer
\* fires first, and then the token is cancelled; the token is never cancelled
\* when the provider answered first.
C32_FormatRace ==
    \A id \in SaveIds :
        LET r == formatState[id]
        IN  /\ (r.first = "provider" /\ r.provider = "resolved") =>
                /\ ~r.cancelled
                /\ r.waitUntil = "resolved"
                /\ r.edits = IF r.answer.isArray THEN r.answer ELSE NoEdits
            /\ r.first = "timer" =>
                /\ r.cancelled
                /\ r.waitUntil = "resolved"
                /\ r.edits = NoEdits

\* one save got the provider's edits, the other one timed out and its
\* provider answered with edits afterwards
C32_Witness ==
    \E id, other \in SaveIds :
        /\ formatState[id].first = "provider"
        /\ formatState[id].edits = Edits(<<"edit">>)
        /\ formatState[id].timer = "cleared"
        /\ formatState[other].first = "timer"
        /\ formatState[other].provider = "resolved"
        /\ formatState[other].answer = Edits(<<"edit">>)
        /\ formatState[other].edits = NoEdits

(***************************************************************************)
(* MruLoader under Selection.First: a new loader and items whose keys      *)
(* differ in where the separators stand.                                   *)
(***************************************************************************)
\* items without a separator in filterText and source; the third one has a
\* kind that is a text with a separator
FirstItems ==
    {[filterText |-> <<"a", "b">>, source |-> <<"s">>, kind |-> NumKind(1)],
     [filterText |-> <<"a">>, source |-> <<"a", "b">>, kind |-> NumKind(1)],
     [filterText |-> <<"a">>, source |-> <<"a", "b">>, kind |-> StrKind(<<"s", "|", "1">>)],
     [filterText |-> <<"a">>, source |-> <<"a", "b">>, kind |-> StrKind(<<"s">>)],
     [filterText |-> <<"a", "b">>, source |-> <<"s">>, kind |-> UndefKind]}

FirstInit ==
    /\ max = NewLoader.max
    /\ items = NewLoader.items
    /\ itemsNoPrefex = NewLoader.itemsNoPrefex
    /\ ghost = NewGhost
    /\ last = Call("none", <<>>, NoItem, "first", 0, NewLoader, NewGhost)
    /\ ops = 0
    /\ IdleOthers

FirstNext ==
    \/ \E input \in Inputs, item \in FirstItems, selection \in Selections :
           GetScore(input, item, selection)
    \/ \E prefix \in Inputs, item \in FirstItems : Add(prefix, item)
    \/ Clear

SpecFirst == FirstInit /\ [][FirstNext]_vars

\* no filterText, source or prefix holds the separator
NoSeparator ==
    /\ \A item \in FirstItems :
          ~Includes(item.filterText, "|") /\ ~Includes(item.source, "|")
    /\ \A input \in Inputs : ~Includes(input, "|")

\* getScore was called with Selection.First and an input that is not empty
ScoredFirst ==
    /\ last.op = "getScore"
    /\ last.selection = "first"
    /\ Len(last.input) > 0

\* C35 as stated: when no filterText, source or prefix contains '|',
\* getScore(input, item, Selection.First) with a non-empty input returns -1
\* for every item after any sequence of add calls.
C35_AnyKind == (NoSeparator /\ ScoredFirst) => last.ret = -1

\* C35, amended: when no filterText, source or prefix contains '|' and the
\* item's kind is not a text that contains '|', getScore(input, item,
\* Selection.First) with a non-empty input returns -1 after any sequence of
\* add calls.
C35_First ==
    (/\ NoSeparator
     /\ ScoredFirst
     /\ ~(last.item.kind.t = "string" /\ Includes(last.item.kind.s, "|"))) =>
        last.ret = -1

\* the item was added under the input, so that RecentlyUsedByPrefix and
\* RecentlyUsed both have a score for it, and First answered -1
C35_Witness ==
    /\ ScoredFirst
    /\ last.ret = -1
    /\ Score(last.pre.items, last.input \o <<"|">> \o toItemKey(last.item)) >= 0
    /\ Score(last.pre.itemsNoPrefex, toItemKey(last.item)) >= 0
============================================================================
